---- MODULE Spec2Model ----
(***************************************************************************)
(* Model of the GMO Coin connectivity layer: the market-data streaming     *)
(* client (src/src/client/data_client.rs), the private event streaming     *)
(* client (src/src/client/execution_client.rs) with its order cache and    *)
(* command surface, and the REST primitives (src/src/client/rest.rs).      *)
(*                                                                         *)
(* The client objects share no state, and inside GmocoinExecutionClient    *)
(* the command surface and the loop thread share no field.  A behaviour    *)
(* exercises one part, chosen in Init by the variable `client`: "data"     *)
(* (the market-data loop and subscribe), "private" (the private loop and   *)
(* the order cache), "exec" (the command surface), "rest" (the REST        *)
(* primitives), "book" (the text frames, the order books and the handler   *)
(* of the market-data client), "bucket" (one TokenBucket), "sign" (the     *)
(* signing of private requests) or "loops" (connect() and disconnect() at  *)
(* any time); the variables of the other parts keep their constructed      *)
(* values.                                                                 *)
(*                                                                         *)
(* Strings are sequences of byte values, so that Vec<String>::sort and     *)
(* Vec::dedup compare them the way the program does.                       *)
(***************************************************************************)
EXTENDS Integers, Sequences, FiniteSets, TLC

VARIABLES
    client,          \* which client object the behaviour exercises
    \* ---- GmocoinDataClient (data_client.rs:16-25)
    subscriptions,   \* HashSet<(String, String, String)>
    outgoing,        \* Vec<String>, the Outgoing Command Queue
    shutdown,        \* AtomicBool
    connected,       \* AtomicBool
    ws_tokens,       \* ws_rate_limit: tokens in the bucket, in 1/TokenScale tokens
    \* ---- GmocoinDataClient::ws_loop, the loop thread
    pc,              \* position of the loop ("none": no loop spawned yet)
    backoff_sec,     \* local backoff_sec
    to_send,         \* local to_send
    draining,        \* commands taken by queue.drain(..), not yet sent (queue lock held)
    frame,           \* kind of the inbound frame being handled
    ws,              \* the WebSocket of the loop: "none", "open", "closing", "dropped"
    \* ---- an application thread inside subscribe()
    call,            \* the subscribe call in flight, or NoCall
    calls,           \* number of subscribe calls made so far
    \* ---- observation of the data client (history, not program state)
    sent,            \* commands handed to the open socket while Resubscribing
    sent_q,          \* commands of the queue handed to the open socket while Streaming
    at_frame,        \* the queue as it was when the frame being handled arrived
    acquires,        \* acquire() calls that returned on the open connection
    since_acq,       \* seconds since the last acquire() on ws_rate_limit (saturating)
    fails,           \* backoff waits since the loop started or last connected (saturating)
    subs_at_conn,    \* the Subscription set when the open connection was opened
    \* ---- GmocoinExecutionClient (execution_client.rs:15-23) and its ws_loop
    p_shutdown,      \* AtomicBool
    p_pc,            \* position of the private loop
    p_backoff,       \* local backoff_sec
    p_token,         \* local token: "none" or "held"
    p_left,          \* channels still to subscribe on this connection
    p_tokens,        \* ws_sub_limiter: tokens in the bucket, in 1/TokenScale tokens
    p_elapsed,       \* last_refresh.elapsed(), in seconds (saturating)
    p_ws,            \* the private WebSocket: "none", "open", "closing", "dropped"
    \* ---- observation of the private client (history, not program state)
    p_fails,         \* backoff waits since the loop started or last connected (saturating)
    p_uses,          \* connection attempts made with the token held (saturating)
    p_open,          \* seconds since the stream was opened (saturating)
    p_renewed,       \* whether a renewal succeeded on the current connection
    \* ---- GmocoinExecutionClient: the order cache and process_ws_message
    orders,          \* HashMap<u64, Order>, as a set of <<key, record>> entries
    order_callback,  \* Option<PyObject>: whether a handler is registered
    p_msg,           \* the text frame process_ws_message is handling, or NoMsg
    p_kind,          \* local event_type of process_ws_message
    p_txt,           \* local txt of the message loop: the text frame of its last iteration
    \* ---- observation of the order cache (history, not program state)
    p_latest,        \* per order id, the latest order-update frame decoded with that id
    p_seen,          \* the Order records decoded from order-update frames so far
    p_stop_wanted,   \* the application has asked for the private client to stop
    \* ---- GmocoinExecutionClient: the command surface
    client_oid_map,  \* HashMap<String, u64>, as a set of <<key, value>> entries
    x_call,          \* the command in flight, or NoCommand
    x_result,        \* <<kind, order_id>>: what the last command returned to its caller
    \* ---- observation of the command surface (history, not program state)
    x_latest,        \* per client order id, the last answer that was an order id
    \* ---- GmocoinRestClient (rest.rs:19-27) and one REST primitive in flight
    rate,            \* constructor argument rate_limit_per_sec
    r_get_tokens,    \* rate_limit_get: tokens in the bucket, in 1/TokenScale tokens
    r_post_tokens,   \* rate_limit_post: tokens in the bucket, in 1/TokenScale tokens
    r_pc,            \* position of the primitive in flight ("idle": none)
    r_call,          \* the primitive in flight and its requested type
    r_body,          \* the response text it received
    r_result,        \* what the last primitive returned
    \* ---- observation of the REST client (history, not program state)
    r_acquired,      \* acquire() calls of the primitive in flight, per limiter
    r_sends,         \* HTTP requests the primitive in flight has sent
    \* ---- GmocoinDataClient: the order books and dispatch_message
    books,           \* HashMap<String, OrderBook>, as a set of <<symbol, book>> entries
    data_callback,   \* Option<Py<PyAny>>: whether a handler is registered
    d_pc,            \* position of dispatch_message ("idle": not in it)
    d_depth,         \* the Depth it decoded
    book_clone,      \* local book_clone
    d_txt,           \* local txt of the message loop: the text frame of its last iteration,
                     \* <<>> before the first
    gil,             \* holder of the interpreter lock: "free", "loop" or "app"
    cb_lock,         \* holder of the data_callback mutex: "free" or "loop"
    reg_pc,          \* position of the thread calling set_data_callback ("idle": none)
    \* ---- observation of the order books (history, not program state)
    d_applied,       \* the book of the engine right after d_depth was applied
    delivered,       \* the copy last handed to the handler, with d_applied of its frame
    \* ---- one TokenBucket and a caller of acquire()
    b_capacity,      \* capacity, in tokens
    b_tokens,        \* tokens in the bucket, in 1/TokenScale tokens
    b_pc,            \* "idle" or "acquiring"
    \* ---- observation of the bucket (history, not program state)
    b_burst,         \* acquires returned since the bucket was full with no time passing
    b_waited,        \* time the acquire() in progress has waited, in 1/TokenScale of 1/R
    \* ---- GmocoinRestClient: the signing of private requests
    s_req,           \* the private request being built
    s_sent,          \* its url and text_to_sign
    s_prev,          \* the request built before it and what was sent for it
    \* ---- GmocoinDataClient: the threads connect() has spawned
    loops            \* position of the ws_loop of each connect() call, in call order

dataVars == <<subscriptions, outgoing, shutdown, connected, ws_tokens, pc, backoff_sec,
              to_send, draining, frame, ws, call, calls, sent, sent_q, at_frame,
              acquires, since_acq, fails, subs_at_conn>>

privVars == <<p_shutdown, p_pc, p_backoff, p_token, p_left, p_tokens, p_elapsed, p_ws,
              p_fails, p_uses, p_open, p_renewed>>

cacheVars == <<orders, order_callback, p_msg, p_kind, p_txt, p_latest, p_seen,
              p_stop_wanted>>

execVars == <<client_oid_map, x_call, x_result, x_latest>>

restVars == <<rate, r_get_tokens, r_post_tokens, r_pc, r_call, r_body, r_result,
              r_acquired, r_sends>>

bookVars == <<books, data_callback, d_pc, d_depth, book_clone, d_txt, gil, cb_lock, reg_pc,
              d_applied, delivered>>

bucketVars == <<b_capacity, b_tokens, b_pc, b_burst, b_waited>>

signVars == <<s_req, s_sent, s_prev>>

vars == <<client, dataVars, privVars, cacheVars, execVars, restVars, bookVars, bucketVars,
         signVars, loops>>

----------------------------------------------------------------------------
(* Bounds of the model *)

\* subscribe() calls the application makes in one behaviour
MaxCalls == 2

\* connect() calls the application makes on one market-data client while the loops
\* of its earlier calls may still run
MaxConnects == 3

\* the largest rate_limit_per_sec a GmocoinRestClient is constructed with
MaxRate == 2

\* the largest capacity a TokenBucket is constructed with
MaxCapacity == 2

\* saturation of the history counters fails and p_fails
MaxFails == 8

\* seconds by which one PTick advances the private client's clock
TimeStep == 300

----------------------------------------------------------------------------
(* Strings *)

S_ticker == <<116, 105, 99, 107, 101, 114>>
S_trades == <<116, 114, 97, 100, 101, 115>>
S_BTC_JPY == <<66, 84, 67, 95, 74, 80, 89>>
S_TAKER_ONLY == <<84, 65, 75, 69, 82, 95, 79, 78, 76, 89>>
S_empty == <<>>

\* Option<String>: None is the empty sequence, Some(s) is <<s>>
None == <<>>
Some(s) == <<s>>

\* the (channel, symbol, option) arguments the application passes to subscribe()
SubscribeArgs ==
    { <<S_ticker, S_BTC_JPY, None>>,
      <<S_trades, S_BTC_JPY, Some(S_TAKER_ONLY)>>,
      <<S_trades, S_BTC_JPY, Some(S_empty)>> }

Min(a, b) == IF a < b THEN a ELSE b

\* byte-wise lexicographic order of two strings (Ord for String)
LexLess(a, b) ==
    LET n == Min(Len(a), Len(b))
        diff == {i \in 1..n : a[i] # b[i]}
    IN  IF diff = {} THEN Len(a) < Len(b)
        ELSE LET k == CHOOSE i \in diff : \A j \in diff : i <= j
             IN  a[k] < b[k]

\* Vec<String>::sort, a stable sort: the element at index i goes to the position
\* that counts the smaller elements and the equal elements before it
VecSort(s) ==
    LET rank(i) == Cardinality({j \in 1..Len(s) : LexLess(s[j], s[i])})
                   + Cardinality({j \in 1..(i - 1) : s[j] = s[i]}) + 1
    IN  [k \in 1..Len(s) |-> s[CHOOSE i \in 1..Len(s) : rank(i) = k]]

\* Vec::dedup: every element equal to the one before it is removed
Dedup(s) ==
    LET keep == {i \in 1..Len(s) : i = 1 \/ s[i] # s[i - 1]}
    IN  [k \in 1..Cardinality(keep) |->
            s[CHOOSE i \in keep : Cardinality({j \in keep : j < i}) = k - 1]]

\* the enumerations of a finite set (HashSet iteration order is unspecified)
RECURSIVE Orders(_)
Orders(S) ==
    IF S = {} THEN {<<>>}
    ELSE UNION {{<<x>> \o o : o \in Orders(S \ {x})} : x \in S}

Range(s) == {s[i] : i \in 1..Len(s)}

----------------------------------------------------------------------------
(* GmocoinDataClient *)

\* build_subscribe_msg: the JSON text {"channel":c,"command":"subscribe"[,"option":o],
\* "symbol":s} (serde_json writes the keys of an object in sorted order); the option
\* key is written only for Some(o) with o not empty
build_subscribe_msg(channel, symbol, option) ==
    LET J_open == <<123, 34, 99, 104, 97, 110, 110, 101, 108, 34, 58, 34>>
        J_command == <<34, 44, 34, 99, 111, 109, 109, 97, 110, 100, 34, 58, 34, 115, 117,
                       98, 115, 99, 114, 105, 98, 101, 34>>
        J_option == <<44, 34, 111, 112, 116, 105, 111, 110, 34, 58, 34>>
        J_symbol == <<44, 34, 115, 121, 109, 98, 111, 108, 34, 58, 34>>
        J_quote == <<34>>
        J_close == <<34, 125>>
    IN  J_open \o channel \o J_command
            \o (IF option # None /\ option[1] # S_empty
                THEN J_option \o option[1] \o J_quote ELSE <<>>)
            \o J_symbol \o symbol \o J_close

\* option.unwrap_or_default()
unwrap_or_default(option) == IF option = None THEN S_empty ELSE option[1]

\* the command ws_loop builds for a stored tuple (data_client.rs:173-176)
StoredMsg(t) ==
    build_subscribe_msg(t[1], t[2], IF t[3] = S_empty THEN None ELSE Some(t[3]))

\* no subscribe call is in flight
NoCall == [at |-> "idle", channel |-> <<>>, symbol |-> <<>>, option |-> None]

\* TokenBucket::new(1.0, ws_rate) with the default ws_rate 0.5: tokens are counted in
\* 1/TokenScale tokens, so that 0.5 tokens per second is ws_refill_per_sec units
TokenScale == 2
ws_capacity == 1
ws_refill_per_sec == 1
max_backoff == 64

\* TokenBucket: tokens accrue up to capacity
Refill(tokens, capacity, amount) == Min(capacity * TokenScale, tokens + amount)


\* a variant in which acquire() returns whether or not a token is there
AcquireAnyway(tokens) == TRUE

\* TokenBucket::acquire returns once a whole token is there and consumes it
CanAcquire(tokens) == tokens >= TokenScale
Acquire(tokens) == tokens - TokenScale

\* seconds after which since_acq saturates: the time one token takes to accrue
MinInterval == TokenScale \div ws_refill_per_sec


\* a variant that doubles without the cap
DoubleNoCap(b, cap) == b * 2

NextBackoff(b, cap) == Min(b * 2, cap)

\* the tuple subscribe() stores for its arguments (data_client.rs:95-100)
CallTuple(c) == <<c.channel, c.symbol, unwrap_or_default(c.option)>>

\* the queue mutex is held by the loop from queue.drain(..) until the last send
QueueLocked == pc = "drain"

\* positions of the loop at which its WebSocket is open and Resubscribing is over
StreamingPcs == {"stream_top", "recv", "drain"}

\* --- the application's calls

\* connect(): clears both flags and spawns the loop thread, whose first statement
\* sets backoff_sec.  Modelled for a client whose earlier loop, if any, has returned.
Connect ==
    /\ client = "data"
    /\ pc \in {"none", "terminated"}
    /\ shutdown' = FALSE
    /\ connected' = FALSE
    /\ pc' = "top"
    /\ backoff_sec' = 1
    /\ fails' = 0
    /\ ws' = "none"
    /\ UNCHANGED <<bookVars, bucketVars, signVars, client, loops, subscriptions, outgoing, ws_tokens, to_send, draining, frame,
                   call, calls, sent, acquires, since_acq, subs_at_conn, sent_q, at_frame, privVars, cacheVars, execVars, restVars>>

\* disconnect(): sets the shutdown flag
Disconnect ==
    /\ client = "data"
    /\ ~shutdown
    /\ shutdown' = TRUE
    /\ UNCHANGED <<bookVars, bucketVars, signVars, client, loops, subscriptions, outgoing, connected, ws_tokens, pc, backoff_sec,
                   to_send, draining, frame, ws, call, calls, sent, acquires, since_acq, fails,
                   subs_at_conn, sent_q, at_frame, privVars, cacheVars, execVars, restVars>>

\* subscribe(), first part: the tuple is stored under the subscriptions mutex
SubscribeStore(channel, symbol, option) ==
    /\ client = "data"
    /\ call = NoCall
    /\ calls < MaxCalls
    /\ calls' = calls + 1
    /\ subscriptions' = subscriptions \cup {<<channel, symbol, unwrap_or_default(option)>>}
    /\ call' = [at |-> "check", channel |-> channel, symbol |-> symbol, option |-> option]
    /\ UNCHANGED <<bookVars, bucketVars, signVars, client, loops, outgoing, shutdown, connected, ws_tokens, pc, backoff_sec,
                   to_send, draining, frame, ws, sent, acquires, since_acq, fails, subs_at_conn, sent_q, at_frame,
                   privVars, cacheVars, execVars, restVars>>


\* a variant that pushes whatever the flag says
AlwaysPush(c, is_connected) == [c EXCEPT !.at = "push"]

\* where a subscribe call goes after connected.load(): to the push, or it returns
AfterConnectedLoad(c, is_connected) ==
    IF is_connected THEN [c EXCEPT !.at = "push"] ELSE NoCall

\* subscribe(), second part: connected.load()
SubscribeCheck ==
    /\ client = "data"
    /\ call.at = "check"
    /\ call' = AfterConnectedLoad(call, connected)
    /\ UNCHANGED <<bookVars, bucketVars, signVars, client, loops, subscriptions, outgoing, shutdown, connected, ws_tokens, pc,
                   backoff_sec, to_send, draining, frame, ws, calls, sent, acquires, since_acq,
                   fails, subs_at_conn, sent_q, at_frame, privVars, cacheVars, execVars, restVars>>

\* subscribe(), third part: the command is pushed under the queue mutex
SubscribePush ==
    /\ client = "data"
    /\ call.at = "push"
    /\ ~QueueLocked
    /\ outgoing' = Append(outgoing,
                          build_subscribe_msg(call.channel, call.symbol, call.option))
    /\ call' = NoCall
    /\ UNCHANGED <<bookVars, bucketVars, signVars, client, loops, subscriptions, shutdown, connected, ws_tokens, pc, backoff_sec,
                   to_send, draining, frame, ws, calls, sent, acquires, since_acq, fails,
                   subs_at_conn, sent_q, at_frame, privVars, cacheVars, execVars, restVars>>

Subscribe ==
    \/ \E args \in SubscribeArgs : SubscribeStore(args[1], args[2], args[3])
    \/ SubscribeCheck
    \/ SubscribePush

\* --- GmocoinDataClient::ws_loop


\* a variant that never looks at the flag
NeverReturn(is_shutdown, go_on) == go_on

\* what the loop does after a shutdown.load() outside a connection: return, or go on
AfterShutdownLoad(is_shutdown, go_on) == IF is_shutdown THEN "terminated" ELSE go_on

\* data_client.rs:154, top of the reconnect loop
LoopTop ==
    /\ client = "data"
    /\ pc = "top"
    /\ pc' = AfterShutdownLoad(shutdown, "connecting")
    /\ UNCHANGED <<bookVars, bucketVars, signVars, client, loops, subscriptions, outgoing, shutdown, connected, ws_tokens,
                   backoff_sec, to_send, draining, frame, ws, call, calls, sent, acquires,
                   since_acq, fails, subs_at_conn, sent_q, at_frame, privVars, cacheVars, execVars, restVars>>

\* backoff_sec after a successful connect_async (data_client.rs:161)
BackoffOnConnect(b) == 1

\* data_client.rs:158-165, connect_async returned Ok
ConnectOk ==
    /\ client = "data"
    /\ pc = "connecting"
    /\ backoff_sec' = BackoffOnConnect(backoff_sec)
    /\ connected' = TRUE
    /\ ws' = "open"
    /\ to_send' = <<>>
    /\ pc' = "collect_subs"
    /\ sent' = <<>>
    /\ acquires' = 0
    /\ fails' = 0
    /\ subs_at_conn' = subscriptions
    /\ UNCHANGED <<bookVars, bucketVars, signVars, client, loops, subscriptions, outgoing, shutdown, ws_tokens, draining, frame,
                   call, calls, since_acq, sent_q, at_frame, privVars, cacheVars, execVars, restVars>>

\* data_client.rs:264-266, connect_async returned Err
ConnectFail ==
    /\ client = "data"
    /\ pc = "connecting"
    /\ pc' = "after"
    /\ UNCHANGED <<bookVars, bucketVars, signVars, client, loops, subscriptions, outgoing, shutdown, connected, ws_tokens,
                   backoff_sec, to_send, draining, frame, ws, call, calls, sent, acquires,
                   since_acq, fails, subs_at_conn, sent_q, at_frame, privVars, cacheVars, execVars, restVars>>


\* a variant that replays nothing of the Subscription set
CollectSubsNone ==
    /\ client = "data"
    /\ pc = "collect_subs"
    /\ to_send' = <<>>
    /\ pc' = "collect_queue"
    /\ UNCHANGED <<bookVars, bucketVars, signVars, client, loops, subscriptions, outgoing, shutdown, connected, ws_tokens,
                   backoff_sec, draining, frame, ws, call, calls, sent, acquires,
                   since_acq, fails, subs_at_conn, sent_q, at_frame, privVars, cacheVars, execVars, restVars>>

\* data_client.rs:168-177: one command per stored tuple, in the set's iteration order
CollectSubs ==
    /\ client = "data"
    /\ pc = "collect_subs"
    /\ \E order \in Orders(subscriptions) : to_send' = [i \in 1..Len(order) |-> StoredMsg(order[i])]
    /\ pc' = "collect_queue"
    /\ UNCHANGED <<bookVars, bucketVars, signVars, client, loops, subscriptions, outgoing, shutdown, connected, ws_tokens,
                   backoff_sec, draining, frame, ws, call, calls, sent, acquires, since_acq, fails,
                   subs_at_conn, sent_q, at_frame, privVars, cacheVars, execVars, restVars>>


\* a variant that sorts and does not deduplicate
SortOnly(msgs) == VecSort(msgs)

\* to_send.sort(); to_send.dedup()  (data_client.rs:186-187)
SortDedup(msgs) == Dedup(VecSort(msgs))

\* data_client.rs:180-187: the queue is drained into to_send, which is sorted and
\* deduplicated
CollectQueue ==
    /\ client = "data"
    /\ pc = "collect_queue"
    /\ to_send' = SortDedup(to_send \o outgoing)
    /\ outgoing' = <<>>
    /\ pc' = IF to_send' = <<>> THEN "stream_top" ELSE "resub_acquire"
    /\ UNCHANGED <<bookVars, bucketVars, signVars, client, loops, subscriptions, shutdown, connected, ws_tokens, backoff_sec,
                   draining, frame, ws, call, calls, sent, acquires, since_acq, fails, subs_at_conn, sent_q, at_frame,
                   privVars, cacheVars, execVars, restVars>>

\* data_client.rs:191, ws_rate_limit.acquire().await returns
ResubAcquire ==
    /\ client = "data"
    /\ pc = "resub_acquire"
    /\ CanAcquire(ws_tokens)
    /\ ws_tokens' = Acquire(ws_tokens)
    /\ since_acq' = 0
    /\ acquires' = acquires + 1
    /\ pc' = "resub_send"
    /\ UNCHANGED <<bookVars, bucketVars, signVars, client, loops, subscriptions, outgoing, shutdown, connected, backoff_sec,
                   to_send, draining, frame, ws, call, calls, sent, fails, subs_at_conn, sent_q, at_frame,
                   privVars, cacheVars, execVars, restVars>>

\* data_client.rs:192-194, ws.send of the command; a send error is logged and the
\* loop goes on the same way
ResubSend ==
    /\ client = "data"
    /\ pc = "resub_send"
    /\ sent' = Append(sent, Head(to_send))
    /\ to_send' = Tail(to_send)
    /\ pc' = IF to_send' = <<>> THEN "stream_top" ELSE "resub_acquire"
    /\ UNCHANGED <<bookVars, bucketVars, signVars, client, loops, subscriptions, outgoing, shutdown, connected, ws_tokens,
                   backoff_sec, draining, frame, ws, call, calls, acquires, since_acq,
                   fails, subs_at_conn, sent_q, at_frame, privVars, cacheVars, execVars, restVars>>

\* data_client.rs:199-203, top of the message loop
StreamTop ==
    /\ client = "data"
    /\ pc = "stream_top"
    /\ IF shutdown
       THEN /\ ws' = "closing"
            /\ connected' = FALSE
            /\ pc' = "terminated"
            /\ sent' = <<>> /\ sent_q' = <<>> /\ acquires' = 0 /\ subs_at_conn' = {}
       ELSE /\ pc' = "recv"
            /\ UNCHANGED <<ws, connected, sent, sent_q, acquires, subs_at_conn>>
    /\ UNCHANGED <<bookVars, bucketVars, signVars, client, loops, subscriptions, outgoing, shutdown, ws_tokens, backoff_sec,
                   to_send, draining, frame, call, calls, since_acq, fails, at_frame,
                   privVars, cacheVars, execVars, restVars>>

\* a variant that goes on to the frame without looking at the queue
RecvFrameUndrained(kind) ==
    /\ client = "data"
    /\ pc = "recv"
    /\ frame' = kind
    /\ at_frame' = outgoing
    /\ pc' = "drain"
    /\ UNCHANGED <<bookVars, bucketVars, signVars, client, loops, subscriptions, outgoing, shutdown, connected, ws_tokens,
                   backoff_sec, to_send, draining, ws, call, calls, sent, sent_q, acquires,
                   since_acq, fails, subs_at_conn, privVars, cacheVars, execVars, restVars>>

\* data_client.rs:206-210 and 234-238: ws.next() returned a text frame or a ping; the
\* queue mutex is taken and the queue drained
RecvFrame(kind) ==
    /\ client = "data"
    /\ pc = "recv"
    /\ frame' = kind
    /\ at_frame' = outgoing
    /\ draining' = outgoing
    /\ outgoing' = <<>>
    /\ pc' = "drain"
    /\ UNCHANGED <<bookVars, bucketVars, signVars, client, loops, subscriptions, shutdown, connected, ws_tokens, backoff_sec,
                   to_send, ws, call, calls, sent, sent_q, acquires, since_acq, fails,
                   subs_at_conn, privVars, cacheVars, execVars, restVars>>

\* data_client.rs:211 and 239: ws.send(..).await of one drained command, with no
\* acquire() before it and the queue mutex still held; a send error is logged and
\* the loop goes on the same way
DrainSend ==
    /\ client = "data"
    /\ pc = "drain"
    /\ draining # <<>>
    /\ sent_q' = Append(sent_q, Head(draining))
    /\ draining' = Tail(draining)
    /\ UNCHANGED <<bookVars, bucketVars, signVars, client, loops, subscriptions, outgoing, shutdown, connected, ws_tokens, pc,
                   backoff_sec, to_send, frame, ws, call, calls, sent, at_frame, acquires,
                   since_acq, fails, subs_at_conn, privVars, cacheVars, execVars, restVars>>

\* data_client.rs:215-232 and 243-244: the mutex is released; a text frame is decoded
\* and dispatched, a ping is answered with a pong
DrainDone ==
    /\ client = "data"
    /\ pc = "drain"
    /\ draining = <<>>
    /\ frame' = "none"
    /\ at_frame' = <<>>
    /\ pc' = "stream_top"
    /\ UNCHANGED <<bookVars, bucketVars, signVars, client, loops, subscriptions, outgoing, shutdown, connected, ws_tokens,
                   backoff_sec, to_send, draining, ws, call, calls, sent, sent_q, acquires,
                   since_acq, fails, subs_at_conn, privVars, cacheVars, execVars, restVars>>

\* a variant that leaves the connected flag as it is when the message loop is left
StreamEndKeepsFlag ==
    /\ client = "data"
    /\ pc = "recv"
    /\ ws' = "dropped"
    /\ pc' = "after"
    /\ sent' = <<>> /\ sent_q' = <<>> /\ acquires' = 0 /\ subs_at_conn' = {}
    /\ UNCHANGED <<bookVars, bucketVars, signVars, client, loops, subscriptions, outgoing,
                   shutdown, connected, ws_tokens, backoff_sec, to_send, draining, frame,
                   call, calls, since_acq, fails, at_frame, privVars, cacheVars, execVars,
                   restVars>>

\* data_client.rs:246-257 and 262: a close frame, a transport error or the end of the
\* stream breaks the message loop
StreamEnd ==
    /\ client = "data"
    /\ pc = "recv"
    /\ ws' = "dropped"
    /\ connected' = FALSE
    /\ pc' = "after"
    /\ sent' = <<>> /\ sent_q' = <<>> /\ acquires' = 0 /\ subs_at_conn' = {}
    /\ UNCHANGED <<bookVars, bucketVars, signVars, client, loops, subscriptions, outgoing, shutdown, ws_tokens, backoff_sec,
                   to_send, draining, frame, call, calls, since_acq, fails, at_frame,
                   privVars, cacheVars, execVars, restVars>>

\* data_client.rs:258: any other frame (binary, pong) is ignored
RecvOther ==
    /\ client = "data"
    /\ pc = "recv"
    /\ pc' = "stream_top"
    /\ UNCHANGED <<bookVars, bucketVars, signVars, client, loops, subscriptions, outgoing, shutdown, connected, ws_tokens,
                   backoff_sec, to_send, draining, frame, ws, call, calls, sent, acquires,
                   since_acq, fails, subs_at_conn, sent_q, at_frame, privVars, cacheVars, execVars, restVars>>


\* a variant that returns after a failed attempt or a lost connection
AfterCheckReturn ==
    /\ client = "data"
    /\ pc = "after"
    /\ pc' = "terminated"
    /\ UNCHANGED <<bookVars, bucketVars, signVars, client, loops, subscriptions, outgoing, shutdown, connected, ws_tokens,
                   backoff_sec, to_send, draining, frame, ws, call, calls, sent, acquires,
                   since_acq, fails, subs_at_conn, sent_q, at_frame, privVars, cacheVars, execVars, restVars>>

\* data_client.rs:269
AfterCheck ==
    /\ client = "data"
    /\ pc = "after"
    /\ pc' = AfterShutdownLoad(shutdown, "sleep")
    /\ UNCHANGED <<bookVars, bucketVars, signVars, client, loops, subscriptions, outgoing, shutdown, connected, ws_tokens,
                   backoff_sec, to_send, draining, frame, ws, call, calls, sent, acquires,
                   since_acq, fails, subs_at_conn, sent_q, at_frame, privVars, cacheVars, execVars, restVars>>

\* data_client.rs:270-271: sleep(backoff_sec) is over and backoff_sec is doubled
Sleep ==
    /\ client = "data"
    /\ pc = "sleep"
    /\ backoff_sec' = NextBackoff(backoff_sec, max_backoff)
    /\ fails' = Min(fails + 1, MaxFails)
    /\ pc' = "top"
    /\ UNCHANGED <<bookVars, bucketVars, signVars, client, loops, subscriptions, outgoing, shutdown, connected, ws_tokens,
                   to_send, draining, frame, ws, call, calls, sent, acquires, since_acq,
                   subs_at_conn, sent_q, at_frame, privVars, cacheVars, execVars, restVars>>

\* one second passes: the bucket of ws_rate_limit refills
Tick ==
    /\ client = "data"
    /\ since_acq < MinInterval \/ ws_tokens < ws_capacity * TokenScale
    /\ ws_tokens' = Refill(ws_tokens, ws_capacity, ws_refill_per_sec)
    /\ since_acq' = Min(since_acq + 1, MinInterval)
    /\ UNCHANGED <<bookVars, bucketVars, signVars, client, loops, subscriptions, outgoing, shutdown, connected, pc, backoff_sec,
                   to_send, draining, frame, ws, call, calls, sent, acquires, fails, subs_at_conn, sent_q, at_frame,
                   privVars, cacheVars, execVars, restVars>>

DataLoop ==
    \/ LoopTop
    \/ ConnectOk
    \/ ConnectFail
    \/ CollectSubs
    \/ CollectQueue
    \/ ResubAcquire
    \/ ResubSend
    \/ StreamTop
    \/ DrainSend
    \/ DrainDone
    \/ AfterCheck
    \/ Sleep

DataFrames ==
    \/ \E kind \in {"text", "ping"} : RecvFrame(kind)
    \/ StreamEnd
    \/ RecvOther

NextData == Connect \/ Disconnect \/ Subscribe \/ DataLoop \/ DataFrames \/ Tick

----------------------------------------------------------------------------
(* GmocoinExecutionClient *)

p_initial_backoff == 5
p_max_backoff == 60
refresh_interval == 900

\* ws_sub_limiter, TokenBucket::new(1.0, 0.5): capacity in tokens, refill in
\* 1/TokenScale tokens per second
p_sub_capacity == 1
p_sub_refill_per_sec == 1

\* a variant that leaves out the last channel
ThreeChannels == <<"executionEvents", "orderEvents", "positionEvents">>

\* the channels subscribed on every private connection (execution_client.rs:347)
PrivateChannels ==
    <<"executionEvents", "orderEvents", "positionEvents", "positionSummaryEvents">>

\* positions of the private loop inside its message loop
PStreamingPcs == {"stream_top", "renew", "recv", "callback"}

\* --- the Local Order Cache and the inbound private text frames

\* serde_json::from_value::<Order> failed (order.rs:3-25: a required field is
\* missing or has the wrong type)
DecodeErr == <<>>

\* an Order record, by the two fields the cache is about
OrderRec(id, status) == [order_id |-> id, status |-> status]

\* a text frame, by what process_ws_message reads of it: json, whether it parses as
\* JSON; error, whether it has an "error" key; channel, the string under
\* "channel" ("" when missing or not a string); order, what decoding the whole
\* frame as an Order gives
TextFrame(json, error, channel, order) ==
    [json |-> json, error |-> error, channel |-> channel, order |-> order]

\* the inbound text frames of the model
PrivateTexts ==
    { TextFrame(FALSE, FALSE, "", DecodeErr),
      TextFrame(TRUE, TRUE, "orderEvents", OrderRec(42, "ORDERED")),
      TextFrame(TRUE, FALSE, "orderEvents", OrderRec(42, "ORDERED")),
      TextFrame(TRUE, FALSE, "orderEvents", OrderRec(42, "CANCELED")),
      TextFrame(TRUE, FALSE, "orderEvents", OrderRec(43, "ORDERED")),
      TextFrame(TRUE, FALSE, "orderEvents", DecodeErr),
      TextFrame(TRUE, FALSE, "executionEvents", OrderRec(43, "EXECUTED")),
      TextFrame(TRUE, FALSE, "positionEvents", DecodeErr),
      TextFrame(TRUE, FALSE, "positionSummaryEvents", DecodeErr),
      TextFrame(TRUE, FALSE, "", DecodeErr) }

\* the order ids of those frames
OrderIds == {42, 43}

NoMsg == <<>>

\* a variant that knows the order channel only
EventTypeOrderOnly(channel) ==
    IF channel = "orderEvents" THEN "OrderUpdate" ELSE "Unknown"

\* execution_client.rs:428-434
EventType(channel) ==
    CASE channel = "executionEvents" -> "ExecutionUpdate"
      [] channel = "orderEvents" -> "OrderUpdate"
      [] channel = "positionEvents" -> "PositionUpdate"
      [] channel = "positionSummaryEvents" -> "PositionSummaryUpdate"
      [] OTHER -> "Unknown"


\* a variant that keeps no entry but the one inserted
InsertAlone(map, key, value) == {<<key, value>>}

\* a variant that keeps the entry already there (entry().or_insert)
InsertIfAbsent(map, key, value) ==
    IF \E e \in map : e[1] = key THEN map ELSE map \cup {<<key, value>>}

\* HashMap::insert: the entry of the key, if any, is replaced
HashMapInsert(map, key, value) == {e \in map : e[1] # key} \cup {<<key, value>>}


\* a variant that leaves the cache to be filled after the dispatch
UpsertLater(cache, event_type, msg) == cache

\* a variant that caches whatever decodes as an Order, on any channel
UpsertAnyEvent(cache, event_type, msg) ==
    IF msg.order # DecodeErr
    THEN HashMapInsert(cache, msg.order.order_id, msg.order)
    ELSE cache

\* execution_client.rs:437-442: for OrderUpdate, try to cache the order
UpsertOrder(cache, event_type, msg) ==
    IF event_type = "OrderUpdate" /\ msg.order # DecodeErr
    THEN HashMapInsert(cache, msg.order.order_id, msg.order)
    ELSE cache

\* connect(): clears the shutdown flag and spawns the loop thread, whose first
\* statement sets backoff_sec.  Modelled for a client whose earlier loop, if any, has
\* returned.  The class has no method that sets the flag.
PConnect ==
    /\ client = "private"
    /\ p_pc \in {"none", "terminated"}
    /\ p_shutdown' = FALSE
    /\ p_pc' = "top"
    /\ p_backoff' = p_initial_backoff
    /\ p_fails' = 0
    /\ UNCHANGED <<bookVars, bucketVars, signVars, client, loops, dataVars, p_token, p_left, p_tokens, p_elapsed, p_ws, p_uses,
                   p_open, p_renewed,
                   cacheVars, execVars, restVars>>

\* execution_client.rs:314, top of the reconnect loop
PLoopTop ==
    /\ client = "private"
    /\ p_pc = "top"
    /\ p_pc' = AfterShutdownLoad(p_shutdown, "auth")
    /\ UNCHANGED <<bookVars, bucketVars, signVars, client, loops, dataVars, p_shutdown, p_backoff, p_token, p_left, p_tokens,
                   p_elapsed, p_ws, p_fails, p_uses, p_open, p_renewed,
                   cacheVars, execVars, restVars>>

\* execution_client.rs:317-318, post_ws_auth returned a token
PAuthOk ==
    /\ client = "private"
    /\ p_pc = "auth"
    /\ p_token' = "held"
    /\ p_uses' = 0
    /\ p_pc' = "url"
    /\ UNCHANGED <<bookVars, bucketVars, signVars, client, loops, dataVars, p_shutdown, p_backoff, p_left, p_tokens, p_elapsed,
                   p_ws, p_fails, p_open, p_renewed,
                   cacheVars, execVars, restVars>>


\* a variant that goes on to the connection without a token
PAuthFailProceeds ==
    /\ client = "private"
    /\ p_pc = "auth"
    /\ p_pc' = "url"
    /\ UNCHANGED <<bookVars, bucketVars, signVars, client, loops, dataVars, p_shutdown, p_backoff, p_token, p_left, p_tokens,
                   p_elapsed, p_ws, p_fails, p_uses, p_open, p_renewed,
                   cacheVars, execVars, restVars>>

\* execution_client.rs:319-320, post_ws_auth returned Err
PAuthFail ==
    /\ client = "private"
    /\ p_pc = "auth"
    /\ p_pc' = "auth_sleep"
    /\ UNCHANGED <<bookVars, bucketVars, signVars, client, loops, dataVars, p_shutdown, p_backoff, p_token, p_left, p_tokens,
                   p_elapsed, p_ws, p_fails, p_uses, p_open, p_renewed,
                   cacheVars, execVars, restVars>>

\* execution_client.rs:321-323: sleep(backoff_sec) is over, backoff_sec is doubled,
\* continue
PAuthSleep ==
    /\ client = "private"
    /\ p_pc = "auth_sleep"
    /\ p_backoff' = NextBackoff(p_backoff, p_max_backoff)
    /\ p_fails' = Min(p_fails + 1, MaxFails)
    /\ p_pc' = "top"
    /\ UNCHANGED <<bookVars, bucketVars, signVars, client, loops, dataVars, p_shutdown, p_token, p_left, p_tokens, p_elapsed,
                   p_ws, p_uses, p_open, p_renewed,
                   cacheVars, execVars, restVars>>

\* execution_client.rs:330-332, Url::parse accepted the URL built from the token
PUrlOk ==
    /\ client = "private"
    /\ p_pc = "url"
    /\ p_pc' = "connecting"
    /\ UNCHANGED <<bookVars, bucketVars, signVars, client, loops, dataVars, p_shutdown, p_backoff, p_token, p_left, p_tokens,
                   p_elapsed, p_ws, p_fails, p_uses, p_open, p_renewed,
                   cacheVars, execVars, restVars>>

\* execution_client.rs:333-334, Url::parse rejected it
PUrlBad ==
    /\ client = "private"
    /\ p_pc = "url"
    /\ p_pc' = "url_sleep"
    /\ UNCHANGED <<bookVars, bucketVars, signVars, client, loops, dataVars, p_shutdown, p_backoff, p_token, p_left, p_tokens,
                   p_elapsed, p_ws, p_fails, p_uses, p_open, p_renewed,
                   cacheVars, execVars, restVars>>

\* execution_client.rs:335-336: sleep(5) is over, continue (backoff_sec is left as it
\* is); the token goes out of scope
PUrlSleep ==
    /\ client = "private"
    /\ p_pc = "url_sleep"
    /\ p_token' = "none"
    /\ p_pc' = "top"
    /\ UNCHANGED <<bookVars, bucketVars, signVars, client, loops, dataVars, p_shutdown, p_backoff, p_left, p_tokens, p_elapsed,
                   p_ws, p_fails, p_uses, p_open, p_renewed,
                   cacheVars, execVars, restVars>>

\* execution_client.rs:340-347, connect_async returned Ok; a new ws_sub_limiter,
\* TokenBucket::new(1.0, 0.5), starts full
PConnectOk ==
    /\ client = "private"
    /\ p_pc = "connecting"
    /\ p_uses' = Min(p_uses + 1, 2)
    /\ p_backoff' = p_initial_backoff
    /\ p_fails' = 0
    /\ p_ws' = "open"
    /\ p_tokens' = p_sub_capacity * TokenScale
    /\ p_left' = PrivateChannels
    /\ p_open' = 0
    /\ p_elapsed' = 0
    /\ p_renewed' = FALSE
    /\ p_pc' = "sub_acquire"
    /\ UNCHANGED <<bookVars, bucketVars, signVars, client, loops, dataVars, p_shutdown, p_token,
                   cacheVars, execVars, restVars>>


\* a variant that retries the connection with the token it holds
PConnectFailRetry ==
    /\ client = "private"
    /\ p_pc = "connecting"
    /\ p_uses' = Min(p_uses + 1, 2)
    /\ p_pc' = "connecting"
    /\ UNCHANGED <<bookVars, bucketVars, signVars, client, loops, dataVars, p_shutdown, p_backoff, p_token, p_left, p_tokens,
                   p_elapsed, p_ws, p_fails, p_open, p_renewed,
                   cacheVars, execVars, restVars>>

\* execution_client.rs:403-405, connect_async returned Err
PConnectFail ==
    /\ client = "private"
    /\ p_pc = "connecting"
    /\ p_uses' = Min(p_uses + 1, 2)
    /\ p_pc' = "after"
    /\ UNCHANGED <<bookVars, bucketVars, signVars, client, loops, dataVars, p_shutdown, p_backoff, p_token, p_left, p_tokens,
                   p_elapsed, p_ws, p_fails, p_open, p_renewed,
                   cacheVars, execVars, restVars>>

\* execution_client.rs:349, ws_sub_limiter.acquire().await returns
PSubAcquire ==
    /\ client = "private"
    /\ p_pc = "sub_acquire"
    /\ CanAcquire(p_tokens)
    /\ p_tokens' = Acquire(p_tokens)
    /\ p_pc' = "sub_send"
    /\ UNCHANGED <<bookVars, bucketVars, signVars, client, loops, dataVars, p_shutdown, p_backoff, p_token, p_left, p_elapsed,
                   p_ws, p_fails, p_uses, p_open, p_renewed,
                   cacheVars, execVars, restVars>>

\* execution_client.rs:350-361, ws.send of the subscribe command (an error is logged
\* and the loop goes on the same way); after the last one last_refresh is set
PSubSend ==
    /\ client = "private"
    /\ p_pc = "sub_send"
    /\ p_left' = Tail(p_left)
    /\ IF p_left' = <<>>
       THEN p_pc' = "stream_top" /\ p_elapsed' = 0
       ELSE p_pc' = "sub_acquire" /\ UNCHANGED p_elapsed
    /\ UNCHANGED <<bookVars, bucketVars, signVars, client, loops, dataVars, p_shutdown, p_backoff, p_token, p_tokens, p_ws,
                   p_fails, p_uses, p_open, p_renewed,
                   cacheVars, execVars, restVars>>


\* a variant that renews only after more than the interval
RefreshDueLate(elapsed) == elapsed > refresh_interval

\* whether the token is due for renewal (execution_client.rs:371)
RefreshDue(elapsed) == elapsed >= refresh_interval

\* execution_client.rs:365-372, top of the message loop: shutdown closes the stream
\* and returns; a due renewal is issued; otherwise the loop waits for a frame
PStreamTop ==
    /\ client = "private"
    /\ p_pc = "stream_top"
    /\ IF p_shutdown
       THEN p_ws' = "closing" /\ p_pc' = "terminated"
       ELSE /\ p_pc' = IF RefreshDue(p_elapsed) THEN "renew" ELSE "recv"
            /\ UNCHANGED p_ws
    /\ p_txt' = NoMsg
    /\ UNCHANGED <<bookVars, bucketVars, signVars, client, loops, dataVars, p_shutdown, p_backoff,
                   p_token, p_left, p_tokens, p_elapsed, p_fails, p_uses, p_open, p_renewed,
                   orders, order_callback, p_msg, p_kind, p_latest, p_seen, p_stop_wanted,
                   execVars, restVars>>

\* execution_client.rs:376-377, put_ws_auth returned Ok
PRenewOk ==
    /\ client = "private"
    /\ p_pc = "renew"
    /\ p_elapsed' = 0
    /\ p_renewed' = TRUE
    /\ p_pc' = "recv"
    /\ UNCHANGED <<bookVars, bucketVars, signVars, client, loops, dataVars, p_shutdown, p_backoff, p_token, p_left, p_tokens,
                   p_ws, p_fails, p_uses, p_open,
                   cacheVars, execVars, restVars>>

\* execution_client.rs:372-375, put_ws_auth returned Err: break
PRenewFail ==
    /\ client = "private"
    /\ p_pc = "renew"
    /\ p_ws' = "dropped"
    /\ p_pc' = "after"
    /\ UNCHANGED <<bookVars, bucketVars, signVars, client, loops, dataVars, p_shutdown, p_backoff, p_token, p_left, p_tokens,
                   p_elapsed, p_fails, p_uses, p_open, p_renewed,
                   cacheVars, execVars, restVars>>

\* execution_client.rs:384-386 and 399: a ping is answered with a pong, any other
\* frame that is not text or close is ignored
PRecvFrame(kind) ==
    /\ client = "private"
    /\ p_pc = "recv"
    /\ kind \in {"ping", "other"}
    /\ p_pc' = "stream_top"
    /\ UNCHANGED <<bookVars, bucketVars, signVars, client, loops, dataVars, p_shutdown, p_backoff, p_token, p_left, p_tokens,
                   p_elapsed, p_ws, p_fails, p_uses, p_open, p_renewed,
                   cacheVars, execVars, restVars>>

\* a variant that looks for no "error" key
PDroppedNotJson(msg) == ~msg.json

\* execution_client.rs:419-424: process_ws_message returns at once for a frame that is
\* not JSON or has an "error" key
PDropped(msg) == ~msg.json \/ msg.error

\* execution_client.rs:381-382 and 419-442: a text frame arrives and
\* process_ws_message handles it up to the handler call: a frame that is not JSON
\* or has an "error" key is dropped; otherwise the event type is read from the
\* channel and the cache is updated
PRecvText(msg) ==
    /\ client = "private"
    /\ p_pc = "recv"
    /\ p_txt' = msg
    /\ IF PDropped(msg)
       THEN /\ p_pc' = "stream_top"
            /\ UNCHANGED <<orders, p_msg, p_kind, p_latest, p_seen>>
       ELSE /\ p_kind' = EventType(msg.channel)
            /\ orders' = UpsertOrder(orders, p_kind', msg)
            /\ p_latest' = IF msg.channel = "orderEvents" /\ msg.order # DecodeErr
                           THEN [p_latest EXCEPT ![msg.order.order_id] = msg]
                           ELSE p_latest
            /\ p_seen' = IF msg.channel = "orderEvents" /\ msg.order # DecodeErr
                         THEN p_seen \cup {msg.order} ELSE p_seen
            /\ p_msg' = msg
            /\ p_pc' = "callback"
    /\ UNCHANGED <<bookVars, bucketVars, signVars, client, loops, dataVars, p_shutdown, p_backoff, p_token, p_left, p_tokens,
                   p_elapsed, p_ws, p_fails, p_uses, p_open, p_renewed,
                   order_callback, p_stop_wanted, execVars, restVars>>

\* execution_client.rs:445-453: the registered handler, if any, is called with
\* (event_type, msg_json), and process_ws_message returns
PCallback ==
    /\ client = "private"
    /\ p_pc = "callback"
    /\ p_pc' = "stream_top"
    /\ p_msg' = NoMsg
    /\ p_kind' = "none"
    /\ UNCHANGED <<bookVars, bucketVars, signVars, client, loops, dataVars, p_shutdown, p_backoff, p_token, p_left, p_tokens,
                   p_elapsed, p_ws, p_fails, p_uses, p_open, p_renewed,
                   orders, order_callback, p_txt, p_latest, p_seen, p_stop_wanted,
                   execVars, restVars>>

\* set_order_callback (execution_client.rs:38-41)
SetOrderCallback ==
    /\ client = "private"
    /\ ~order_callback
    /\ order_callback' = TRUE
    /\ UNCHANGED <<bookVars, bucketVars, signVars, client, loops, dataVars, privVars, orders, p_msg,
                   p_kind, p_txt, p_latest, p_seen, p_stop_wanted, execVars, restVars>>

\* the application wants the private client stopped.  The methods of the class
\* (execution_client.rs:25-301) include none that stores true into shutdown, and
\* dropping the object leaves the thread with its own Arc of the flag: nothing
\* the application can do changes the state of the loop
PStopWanted ==
    /\ client = "private"
    /\ p_pc # "none"
    /\ ~p_stop_wanted
    /\ p_stop_wanted' = TRUE
    /\ UNCHANGED <<bookVars, bucketVars, signVars, client, loops, dataVars, privVars, orders,
                   order_callback, p_msg, p_kind, p_txt, p_latest, p_seen, execVars, restVars>>

\* execution_client.rs:387-398: a close frame, a transport error or the end of the
\* stream breaks the message loop
PStreamEnd ==
    /\ client = "private"
    /\ p_pc = "recv"
    /\ p_ws' = "dropped"
    /\ p_pc' = "after"
    /\ UNCHANGED <<bookVars, bucketVars, signVars, client, loops, dataVars, p_shutdown, p_backoff, p_token, p_left, p_tokens,
                   p_elapsed, p_fails, p_uses, p_open, p_renewed,
                   cacheVars, execVars, restVars>>

\* execution_client.rs:408
PAfterCheck ==
    /\ client = "private"
    /\ p_pc = "after"
    /\ p_pc' = AfterShutdownLoad(p_shutdown, "sleep")
    /\ UNCHANGED <<bookVars, bucketVars, signVars, client, loops, dataVars, p_shutdown, p_backoff, p_token, p_left, p_tokens,
                   p_elapsed, p_ws, p_fails, p_uses, p_open, p_renewed,
                   cacheVars, execVars, restVars>>

\* execution_client.rs:409-411: sleep(backoff_sec) is over, backoff_sec is doubled and
\* the iteration ends; the token goes out of scope
PSleep ==
    /\ client = "private"
    /\ p_pc = "sleep"
    /\ p_backoff' = NextBackoff(p_backoff, p_max_backoff)
    /\ p_fails' = Min(p_fails + 1, MaxFails)
    /\ p_token' = "none"
    /\ p_pc' = "top"
    /\ UNCHANGED <<bookVars, bucketVars, signVars, client, loops, dataVars, p_shutdown, p_left, p_tokens, p_elapsed, p_ws,
                   p_uses, p_open, p_renewed,
                   cacheVars, execVars, restVars>>

\* TimeStep seconds pass on an open private connection: ws_sub_limiter refills and,
\* once last_refresh is set, last_refresh.elapsed() grows
PTick ==
    /\ client = "private"
    /\ p_ws = "open"
    /\ p_pc \in PStreamingPcs \cup {"sub_acquire", "sub_send"}
    /\ p_tokens' = Refill(p_tokens, p_sub_capacity, TimeStep * p_sub_refill_per_sec)
    /\ p_open' = IF p_renewed THEN p_open ELSE Min(p_open + TimeStep, refresh_interval)
    /\ p_elapsed' = IF p_pc \in PStreamingPcs
                    THEN Min(p_elapsed + TimeStep, refresh_interval) ELSE p_elapsed
    /\ <<p_tokens', p_open', p_elapsed'>> # <<p_tokens, p_open, p_elapsed>>
    /\ UNCHANGED <<bookVars, bucketVars, signVars, client, loops, dataVars, p_shutdown, p_pc, p_backoff, p_token, p_left, p_ws,
                   p_fails, p_uses, p_renewed,
                   cacheVars, execVars, restVars>>

PrivLoop ==
    \/ PLoopTop
    \/ PAuthOk
    \/ PAuthFail
    \/ PAuthSleep
    \/ PUrlOk
    \/ PUrlBad
    \/ PUrlSleep
    \/ PConnectOk
    \/ PConnectFail
    \/ PSubAcquire
    \/ PSubSend
    \/ PStreamTop
    \/ PRenewOk
    \/ PRenewFail
    \/ PCallback
    \/ PAfterCheck
    \/ PSleep

PrivFrames ==
    \/ \E kind \in {"ping", "other"} : PRecvFrame(kind)
    \/ \E msg \in PrivateTexts : PRecvText(msg)
    \/ PStreamEnd

NextPriv ==
    PConnect \/ SetOrderCallback \/ PStopWanted \/ PrivLoop \/ PrivFrames \/ PTick

----------------------------------------------------------------------------
(* GmocoinExecutionClient: the command surface *)

\* client order ids the application uses
ClientOids == {"c1", "c2"}

\* JSON values, as <<type, content>>
JsonString(bytes) == <<"string", bytes>>
JsonNumber(n) == <<"number", n>>
JsonNull == <<"null", 0>>

\* the "data" of a successful answer to POST /v1/order: "7", "8", "+7", "007", "0",
\* "", "x7", the number 7 and null
SubmitAnswers ==
    { JsonString(<<55>>), JsonString(<<56>>), JsonString(<<43, 55>>),
      JsonString(<<48, 48, 55>>), JsonString(<<48>>), JsonString(<<>>),
      JsonString(<<120, 55>>), JsonNumber(7), JsonNull }

\* commands other than submit_order: each is one REST call whose result is returned
OtherCommands == {"cancel_order", "get_order", "change_order", "close_order"}

NoCommand == [op |-> "none", at |-> "idle", client_order_id |-> "", order_id |-> 0]

IsDigit(b) == b >= 48 /\ b <= 57

\* the value of a sequence of decimal digits
RECURSIVE DigitsValue(_)
DigitsValue(bytes) ==
    IF bytes = <<>> THEN 0
    ELSE 10 * DigitsValue(SubSeq(bytes, 1, Len(bytes) - 1)) + (bytes[Len(bytes)] - 48)

\* str::parse::<u64>: an optional "+" and at least one digit, nothing else; None
\* is <<>>.  The answers of the model are far below u64::MAX
ParseU64(bytes) ==
    LET digits == IF bytes # <<>> /\ bytes[1] = 43 THEN Tail(bytes) ELSE bytes
    IN  IF digits # <<>> /\ \A i \in 1..Len(digits) : IsDigit(digits[i])
        THEN <<DigitsValue(digits)>> ELSE <<>>

\* execution_client.rs:106-107:
\* res.as_str().unwrap_or("").to_string().parse().unwrap_or(0)
OrderIdOf(res) ==
    LET order_id_str == IF res[1] = "string" THEN res[2] ELSE <<>>
        parsed == ParseU64(order_id_str)
    IN  IF parsed = <<>> THEN 0 ELSE parsed[1]


\* an answer of the exchange that is an order id: a JSON string holding the
\* numeral of a positive integer (observation, not program code)
IsOrderIdAnswer(res) ==
    /\ res[1] = "string"
    /\ LET n == IF res[2] # <<>> /\ res[2][1] = 43 THEN Tail(res[2]) ELSE res[2]
       IN  /\ n # <<>>
           /\ \A i \in 1..Len(n) : IsDigit(n[i])
           /\ \E i \in 1..Len(n) : n[i] # 48

\* the integer such an answer denotes
OrderIdAnswered(res) ==
    DigitsValue(IF res[2][1] = 43 THEN Tail(res[2]) ELSE res[2])

NoAnswer == <<>>

\* a variant that records the id whatever it is
RecordAlways(order_id) == TRUE

\* execution_client.rs:109
RecordsId(order_id) == order_id > 0

\* submit_order is called (execution_client.rs:78-102): the REST call is under way
SubmitOrder(client_order_id) ==
    /\ client = "exec"
    /\ x_call = NoCommand
    /\ x_call' = [op |-> "submit_order", at |-> "rest",
                  client_order_id |-> client_order_id, order_id |-> 0]
    /\ x_result' = <<"pending", 0>>
    /\ UNCHANGED <<bookVars, bucketVars, signVars, client, loops, dataVars, privVars, cacheVars, client_oid_map, x_latest,
                   restVars>>

\* cancel_order, get_order, change_order, close_order (execution_client.rs:121-147,
\* 166-188, 271-282) are called: the REST call is under way
OtherCommand(op) ==
    /\ client = "exec"
    /\ x_call = NoCommand
    /\ x_call' = [op |-> op, at |-> "rest", client_order_id |-> "", order_id |-> 0]
    /\ x_result' = <<"pending", 0>>
    /\ UNCHANGED <<bookVars, bucketVars, signVars, client, loops, dataVars, privVars, cacheVars, client_oid_map, x_latest,
                   restVars>>

\* the REST call returned Err: map_err(PyErr::from)? returns it to the caller
\* (execution_client.rs:103, 128, 142)
CommandRestErr ==
    /\ client = "exec"
    /\ x_call.at = "rest"
    /\ x_result' = <<"Err", 0>>
    /\ x_call' = NoCommand
    /\ UNCHANGED <<bookVars, bucketVars, signVars, client, loops, dataVars, privVars, cacheVars, client_oid_map, x_latest,
                   restVars>>

\* the REST call of submit_order returned Ok(res) (execution_client.rs:103-109)
SubmitRestOk(res) ==
    /\ client = "exec"
    /\ x_call.op = "submit_order"
    /\ x_call.at = "rest"
    /\ LET order_id == OrderIdOf(res)
       IN  /\ x_call' = [x_call EXCEPT !.order_id = order_id,
                                       !.at = IF RecordsId(order_id) THEN "insert"
                                              ELSE "return"]
           /\ x_latest' = IF IsOrderIdAnswer(res)
                           THEN [x_latest EXCEPT ![x_call.client_order_id] = res]
                           ELSE x_latest
    /\ UNCHANGED <<bookVars, bucketVars, signVars, client, loops, dataVars, privVars, cacheVars, client_oid_map, x_result,
                   restVars>>

\* execution_client.rs:110-111: the map's write lock is taken and the id recorded
SubmitInsert ==
    /\ client = "exec"
    /\ x_call.at = "insert"
    /\ client_oid_map' = HashMapInsert(client_oid_map, x_call.client_order_id,
                                       x_call.order_id)
    /\ x_call' = [x_call EXCEPT !.at = "return"]
    /\ UNCHANGED <<bookVars, bucketVars, signVars, client, loops, dataVars, privVars, cacheVars, x_result, x_latest,
                   restVars>>

\* execution_client.rs:114-116: {"order_id": order_id} is returned
SubmitReturn ==
    /\ client = "exec"
    /\ x_call.at = "return"
    /\ x_result' = <<"Ok", x_call.order_id>>
    /\ x_call' = NoCommand
    /\ UNCHANGED <<bookVars, bucketVars, signVars, client, loops, dataVars, privVars, cacheVars, client_oid_map, x_latest,
                   restVars>>

\* the REST call of another command returned Ok: its result is returned
\* (execution_client.rs:128-130, 142-144)
OtherRestOk ==
    /\ client = "exec"
    /\ x_call.op \in OtherCommands
    /\ x_call.at = "rest"
    /\ x_result' = <<"Ok", 0>>
    /\ x_call' = NoCommand
    /\ UNCHANGED <<bookVars, bucketVars, signVars, client, loops, dataVars, privVars, cacheVars, client_oid_map, x_latest,
                   restVars>>

Commands ==
    \/ \E c \in ClientOids : SubmitOrder(c)
    \/ \E op \in OtherCommands : OtherCommand(op)

CommandSteps ==
    \/ CommandRestErr
    \/ \E res \in SubmitAnswers : SubmitRestOk(res)
    \/ SubmitInsert
    \/ SubmitReturn
    \/ OtherRestOk

NextExec == Commands \/ CommandSteps

----------------------------------------------------------------------------
(* GmocoinRestClient: the REST primitives and parse_response *)

\* the primitives: public_get, public_get_raw, private_get, and private_request
\* reached as private_post, private_put and with Method::DELETE
Primitives ==
    {"public_get", "public_get_raw", "private_get", "private_post", "private_put",
     "private_delete"}

\* requested types T: serde_json::Value, a Vec of records (Vec<Ticker>, Vec<Asset>)
\* and a list container whose only field has #[serde(default)] (OrdersList)
RequestedTypes == {"Value", "Vec", "List"}

NoPrimitive == [prim |-> "none", T |-> "none"]

\* an i64 by its low 32 bits as a signed number (lo) and the rest (hi):
\* the value is hi * 2^32 + lo
I64(hi, lo) == <<"int", hi, lo>>

\* the "status" of a body: missing, not an integer that fits i64, or an i64
Statuses ==
    {<<"absent", 0, 0>>, <<"other", 0, 0>>, I64(0, 0), I64(0, 5), I64(0, -1), I64(1, 0),
     I64(1, 5)}

\* the "data" of a body: missing, null, a string, an array of well-formed records,
\* an array of something else, an object with a list, an empty object
DataAbsent == "absent"
DataValues ==
    {DataAbsent, "null", "string", "array_of_records", "array_of_other",
     "object_with_list", "object_empty"}

\* the "messages" of a body: missing, not an array, or an array whose elements
\* have a string under "message_string" (<<s>>) or do not (<<>>); the strings are
\* "A" (<<65>>) and "B" (<<66>>)
MessagesValues ==
    {<<"absent", <<>>>>, <<"other", <<>>>>, <<"array", <<>>>>,
     <<"array", << <<<<65>>>> >>>>,
     <<"array", << <<<<65>>>>, <<<<66>>>> >>>>,
     <<"array", << <<>> >>>>,
     <<"array", << <<<<65>>>>, <<>>, <<<<66>>>> >>>>}

\* a response text, by what parse_response reads of it
Body(json, status, data, messages) ==
    [json |-> json, status |-> status, data |-> data, messages |-> messages]

Bodies ==
    {Body(FALSE, <<"absent", 0, 0>>, DataAbsent, <<"absent", <<>>>>)}
        \cup {Body(TRUE, s, d, <<"absent", <<>>>>) : s \in Statuses, d \in DataValues}
        \cup {Body(TRUE, s, DataAbsent, m) : s \in Statuses, m \in MessagesValues}

\* what a primitive returns: Ok(value), ExchangeError{status, messages}, Unknown,
\* ParseError or RequestError
Result(kind, status, messages, value) ==
    [kind |-> kind, status |-> status, messages |-> messages, value |-> value]

NoResult == Result("none", 0, <<"none", <<>>>>, "none")

\* serde_json::from_value::<T>(data) succeeds
Decodes(T, data) ==
    CASE T = "Value" -> TRUE
      [] T = "Vec" -> data = "array_of_records"
      [] T = "List" -> data \in {"object_with_list", "object_empty"}

\* val.get("status").and_then(|v| v.as_i64()).unwrap_or(-1) as i32  (rest.rs:558):
\* the cast keeps the low 32 bits
StatusAsI32(status) == IF status[1] = "int" THEN status[3] ELSE -1

\* "; "
M_sep == <<59, 32>>

\* [..].join("; ")
RECURSIVE Join(_)
Join(strs) ==
    IF strs = <<>> THEN <<>>
    ELSE IF Len(strs) = 1 THEN strs[1]
    ELSE strs[1] \o M_sep \o Join(Tail(strs))

\* filter_map(|msg| msg.get("message_string").and_then(|s| s.as_str()))
RECURSIVE MessageStrings(_)
MessageStrings(elems) ==
    IF elems = <<>> THEN <<>>
    ELSE (IF elems[1] = <<>> THEN <<>> ELSE <<elems[1][1]>>) \o MessageStrings(Tail(elems))

\* rest.rs:577-586: the joined message strings, or "Unknown error. Body: .."
ErrorMessages(messages) ==
    IF messages[1] = "array" THEN <<"joined", Join(MessageStrings(messages[2]))>>
    ELSE <<"fallback", <<>>>>


\* a variant that answers a missing data with the default of T
DefaultForMissingData(T) == Result("Ok", 0, <<"none", <<>>>>, "default")

\* rest.rs:569-574: status=0 but no data
MissingData(T) == Result("Unknown", 0, <<"none", <<>>>>, "none")

\* rest.rs:556-590
parse_response(T, body) ==
    IF ~body.json THEN Result("ParseError", 0, <<"none", <<>>>>, "none")
    ELSE LET status == StatusAsI32(body.status)
         IN  IF status = 0
             THEN IF body.data # DataAbsent
                  THEN IF Decodes(T, body.data)
                       THEN Result("Ok", 0, <<"none", <<>>>>, body.data)
                       ELSE Result("Unknown", 0, <<"none", <<>>>>, "none")
                  ELSE MissingData(T)
             ELSE Result("ExchangeError", status, ErrorMessages(body.messages), "none")


\* a variant with one bucket for every primitive
OneLimiter(prim) == "get"

\* the limiter a primitive acquires from (rest.rs:450, 469, 483, 530)
LimiterOf(prim) ==
    IF prim \in {"public_get", "public_get_raw", "private_get"} THEN "get" ELSE "post"


\* a variant that tries again when the venue rejects the request
RetryOnReject(result) == IF result.kind = "ExchangeError" THEN "acquire" ELSE "idle"

\* where a primitive goes with the result of parse_response: it returns it
\* (rest.rs:461, 474, 503, 552)
AfterParse(result) == "idle"

\* a primitive is called
RestCall(prim, T) ==
    /\ client = "rest"
    /\ r_pc = "idle"
    /\ r_pc' = "acquire"
    /\ r_call' = [prim |-> prim, T |-> T]
    /\ r_body' = <<>>
    /\ r_result' = NoResult
    /\ r_acquired' = [get |-> 0, post |-> 0]
    /\ r_sends' = 0
    /\ UNCHANGED <<bookVars, bucketVars, signVars, client, loops, dataVars, privVars, cacheVars, execVars, rate, r_get_tokens,
                   r_post_tokens>>

\* self.rate_limit_get.acquire().await or self.rate_limit_post.acquire().await returns
RestAcquire ==
    /\ client = "rest"
    /\ r_pc = "acquire"
    /\ LET limiter == LimiterOf(r_call.prim)
       IN  /\ CanAcquire(IF limiter = "get" THEN r_get_tokens ELSE r_post_tokens)
           /\ r_get_tokens' = IF limiter = "get" THEN Acquire(r_get_tokens)
                              ELSE r_get_tokens
           /\ r_post_tokens' = IF limiter = "post" THEN Acquire(r_post_tokens)
                               ELSE r_post_tokens
           /\ r_acquired' = [r_acquired EXCEPT ![limiter] = @ + 1]
    /\ r_pc' = "send"
    /\ UNCHANGED <<bookVars, bucketVars, signVars, client, loops, dataVars, privVars, cacheVars, execVars, rate, r_call, r_body,
                   r_result, r_sends>>

\* builder.send().await returned a response (rest.rs:458, 472, 501, 550)
RestSendOk ==
    /\ client = "rest"
    /\ r_pc = "send"
    /\ r_sends' = r_sends + 1
    /\ r_pc' = "text"
    /\ UNCHANGED <<bookVars, bucketVars, signVars, client, loops, dataVars, privVars, cacheVars, execVars, rate, r_get_tokens,
                   r_post_tokens, r_call, r_body, r_result, r_acquired>>

\* builder.send().await? returned Err: the primitive returns RequestError
RestSendErr ==
    /\ client = "rest"
    /\ r_pc = "send"
    /\ r_sends' = r_sends + 1
    /\ r_result' = Result("RequestError", 0, <<"none", <<>>>>, "none")
    /\ r_pc' = "idle"
    /\ UNCHANGED <<bookVars, bucketVars, signVars, client, loops, dataVars, privVars, cacheVars, execVars, rate, r_get_tokens,
                   r_post_tokens, r_call, r_body, r_acquired>>

\* response.text().await? returned Err (rest.rs:459, 473, 502, 551)
RestTextErr ==
    /\ client = "rest"
    /\ r_pc = "text"
    /\ r_result' = Result("RequestError", 0, <<"none", <<>>>>, "none")
    /\ r_pc' = "idle"
    /\ UNCHANGED <<bookVars, bucketVars, signVars, client, loops, dataVars, privVars, cacheVars, execVars, rate, r_get_tokens,
                   r_post_tokens, r_call, r_body, r_acquired, r_sends>>

\* response.text().await returned the text; parse_response is applied to it
RestText(body) ==
    /\ client = "rest"
    /\ r_pc = "text"
    /\ r_body' = <<body>>
    /\ r_result' = parse_response(r_call.T, body)
    /\ r_pc' = AfterParse(r_result')
    /\ UNCHANGED <<bookVars, bucketVars, signVars, client, loops, dataVars, privVars, cacheVars, execVars, rate, r_get_tokens,
                   r_post_tokens, r_call, r_acquired, r_sends>>

\* the time one token takes to accrue passes: both buckets refill
RestTick ==
    /\ client = "rest"
    /\ r_get_tokens < rate * TokenScale \/ r_post_tokens < rate * TokenScale
    /\ r_get_tokens' = Refill(r_get_tokens, rate, TokenScale)
    /\ r_post_tokens' = Refill(r_post_tokens, rate, TokenScale)
    /\ UNCHANGED <<bookVars, bucketVars, signVars, client, loops, dataVars, privVars, cacheVars, execVars, rate, r_pc, r_call,
                   r_body, r_result, r_acquired, r_sends>>

NextRest ==
    \/ \E prim \in Primitives, T \in RequestedTypes : RestCall(prim, T)
    \/ RestAcquire
    \/ RestSendOk
    \/ RestSendErr
    \/ RestTextErr
    \/ \E body \in Bodies : RestText(body)
    \/ RestTick

----------------------------------------------------------------------------
(* GmocoinDataClient: the text frames, the order books and dispatch_message *)

\* a Depth decoded from an "orderbooks" frame (market_data.rs:50-60); a level is
\* <<price, size>>, which DepthEntry carries as strings and the engine reads as numbers
Depth(symbol, asks, bids) == [symbol |-> symbol, asks |-> asks, bids |-> bids]

\* the snapshots the venue sends
Depths ==
    {Depth("BTC_JPY", a, b) :
         a \in {<< <<100, 1>>, <<101, 0>>, <<99, 2>> >>, << <<101, 3>> >>,
                << <<101, 0>>, <<100, 2>> >>},
         b \in {<< <<98, 3>> >>, << <<97, 1>>, <<98, 0>>, <<96, 2>> >>}}
        \cup {Depth("ETH_JPY", << <<10, 1>> >>, <<>>)}

\* OrderBook::new(symbol)
OrderBookNew(symbol) == [symbol |-> symbol, asks |-> <<>>, bids |-> <<>>]

\* the levels sorted by price, ascending for "asks" and descending for "bids"
RECURSIVE SortLevels(_, _)
SortLevels(levels, side) ==
    IF levels = <<>> THEN <<>>
    ELSE LET l == Head(levels)
             rest == SortLevels(Tail(levels), side)
             Before(x) == IF side = "asks" THEN x[1] < l[1] ELSE x[1] > l[1]
             NotBefore(x) == ~Before(x)
         IN  SelectSeq(rest, Before) \o <<l>> \o SelectSeq(rest, NotBefore)


\* a variant that keeps the levels of size zero
ApplyKeepZero(book, depth) ==
    [book EXCEPT !.asks = SortLevels(depth.asks, "asks"),
                 !.bids = SortLevels(depth.bids, "bids")]

\* a variant that adds the levels of the snapshot to those of the book
ApplyMerge(book, depth) ==
    [book EXCEPT !.asks = SortLevels(SelectSeq(book.asks \o depth.asks, LAMBDA l : l[2] # 0), "asks"),
                 !.bids = SortLevels(SelectSeq(book.bids \o depth.bids, LAMBDA l : l[2] # 0), "bids")]

\* OrderBook::apply_snapshot: both sides are replaced by the levels of the snapshot,
\* sorted, without the levels of size zero
apply_snapshot(book, depth) ==
    [book EXCEPT !.asks = SortLevels(SelectSeq(depth.asks, LAMBDA l : l[2] # 0), "asks"),
                 !.bids = SortLevels(SelectSeq(depth.bids, LAMBDA l : l[2] # 0), "bids")]

\* book_clone before it is set.  What the handler is given is a book of its own or,
\* in the variant, the entry of the engine under that symbol
NoHandle == [kind |-> "none", symbol |-> "", book |-> OrderBookNew("")]


\* a variant that hands out the book of the engine itself
ShareBook(book) == [kind |-> "shared", symbol |-> book.symbol, book |-> OrderBookNew("")]

\* book.clone()  (data_client.rs:301)
CloneBook(book) == [kind |-> "copy", symbol |-> book.symbol, book |-> book]

\* books.entry(symbol).or_insert_with(|| OrderBook::new(symbol))  (data_client.rs:298-299)
EntryOrNew(map, symbol) ==
    IF \E e \in map : e[1] = symbol THEN (CHOOSE e \in map : e[1] = symbol)[2]
    ELSE OrderBookNew(symbol)

\* an inbound text frame of the market-data stream, by what the loop reads of it:
\* json, whether it parses as JSON; error, whether it has an "error" key; channel,
\* the string under "channel" ("" when missing or not a string); decodes, whether
\* its fields decode as the record of a channel (Ticker, Depth, Trade); depth, the
\* Depth of a frame that decodes as one.  "orderbook" stands for a channel the
\* client does not know
DataTexts ==
    LET d == Depth("BTC_JPY", << <<101, 3>> >>, << <<98, 3>> >>)
        none == Depth("", <<>>, <<>>)
        Text(json, error, channel, decodes, depth) ==
            [json |-> json, error |-> error, channel |-> channel, decodes |-> decodes,
             depth |-> depth]
    IN  {Text(FALSE, FALSE, "", FALSE, none),
         Text(TRUE, TRUE, "orderbooks", TRUE, d),
         Text(TRUE, FALSE, "", TRUE, d),
         Text(TRUE, FALSE, "orderbook", TRUE, d),
         Text(TRUE, FALSE, "ticker", TRUE, none),
         Text(TRUE, FALSE, "ticker", FALSE, none),
         Text(TRUE, FALSE, "trades", TRUE, none),
         Text(TRUE, FALSE, "orderbooks", FALSE, none)}
            \cup {Text(TRUE, FALSE, "orderbooks", TRUE, depth) : depth \in Depths}

\* a variant that looks for no "error" key
DispatchedWithError(text) ==
    /\ text.json
    /\ text.channel # ""
    /\ text.channel \in {"ticker", "orderbooks", "trades"}
    /\ text.decodes

\* a variant that takes every channel for "orderbooks"
DispatchedAnyChannel(text) ==
    /\ text.json
    /\ ~text.error
    /\ text.decodes

\* whether a text frame gets as far as Python::try_attach: it parses (218), has no
\* "error" key (220-223), its channel is not empty (229), is one of the three that
\* dispatch_message knows (281-324) and its fields decode (283, 294, 315)
Dispatched(text) ==
    /\ text.json
    /\ ~text.error
    /\ text.channel # ""
    /\ text.channel \in {"ticker", "orderbooks", "trades"}
    /\ text.decodes

\* set_data_callback() is called by a thread of the interpreter, which holds the
\* interpreter lock while it runs the method
SetDataCallbackCall ==
    /\ client = "book"
    /\ reg_pc = "idle"
    /\ gil = "free"
    /\ gil' = "app"
    /\ reg_pc' = "lock"
    /\ UNCHANGED <<client, loops, dataVars, privVars, cacheVars, execVars, restVars,
                   bucketVars, signVars, books, data_callback, d_pc, d_depth, book_clone,
                   d_txt, cb_lock, d_applied, delivered>>

\* set_data_callback() (data_client.rs:47-50): the handler mutex is locked, the
\* handler stored, the mutex released; the method returns
SetDataCallback ==
    /\ client = "book"
    /\ reg_pc = "lock"
    /\ cb_lock = "free"
    /\ data_callback' = TRUE
    /\ gil' = "free"
    /\ reg_pc' = "idle"
    /\ UNCHANGED <<client, loops, dataVars, privVars, cacheVars, execVars, restVars,
                   bucketVars, signVars, books, d_pc, d_depth, book_clone, d_txt, cb_lock,
                   d_applied, delivered>>

\* dispatch_message, data_client.rs:294-302: the frame decodes to a Depth; under the
\* books mutex the book of its symbol is looked up or created, the snapshot applied
\* and the book cloned; the mutex is released
ApplyAndClone(depth) ==
    /\ client = "book"
    /\ d_pc = "idle"
    /\ d_depth' = depth
    /\ LET book == apply_snapshot(EntryOrNew(books, depth.symbol), depth)
       IN  /\ books' = HashMapInsert(books, depth.symbol, book)
           /\ book_clone' = CloneBook(book)
           /\ d_applied' = book
    /\ d_pc' = "attach"
    /\ UNCHANGED <<client, loops, dataVars, privVars, cacheVars, execVars, restVars,
                   bucketVars, signVars, data_callback, gil, cb_lock, reg_pc, delivered>>

\* the Text arm of the message loop after its drain (data_client.rs:217-232) and
\* dispatch_message up to Python::try_attach (281-303, 315): a frame that is not
\* dispatched leaves everything as it is and the loop goes back to ws.next()
TextArm(text) ==
    /\ client = "book"
    /\ d_pc = "idle"
    /\ d_txt' = text
    /\ IF ~Dispatched(text)
       THEN UNCHANGED <<client, loops, dataVars, privVars, cacheVars, execVars, restVars,
                        bucketVars, signVars, books, data_callback, d_pc, d_depth,
                        book_clone, gil, cb_lock, reg_pc, d_applied, delivered>>
       ELSE IF text.channel = "orderbooks"
       THEN ApplyAndClone(text.depth)
       ELSE /\ d_pc' = "attach"
            /\ UNCHANGED <<client, loops, dataVars, privVars, cacheVars, execVars,
                           restVars, bucketVars, signVars, books, data_callback, d_depth,
                           book_clone, gil, cb_lock, reg_pc, d_applied, delivered>>

\* Python::try_attach (data_client.rs:284, 304, 316): the loop thread takes the
\* interpreter lock
Attach ==
    /\ client = "book"
    /\ d_pc = "attach"
    /\ gil = "free"
    /\ gil' = "loop"
    /\ d_pc' = "lock"
    /\ UNCHANGED <<client, loops, dataVars, privVars, cacheVars, execVars, restVars,
                   bucketVars, signVars, books, data_callback, d_depth, book_clone, d_txt,
                   cb_lock, reg_pc, d_applied, delivered>>

\* data_cb_arc.lock() inside the attached closure (data_client.rs:285-286, 305-306,
\* 317-318): with a handler registered the closure goes on to call it, holding the
\* mutex; with none it ends, and the mutex and the interpreter lock are released
LockHandler ==
    /\ client = "book"
    /\ d_pc = "lock"
    /\ cb_lock = "free"
    /\ IF data_callback
       THEN /\ cb_lock' = "loop"
            /\ d_pc' = "call"
            /\ UNCHANGED <<gil, d_depth, book_clone, d_applied>>
       ELSE /\ gil' = "free"
            /\ d_pc' = "idle"
            /\ book_clone' = NoHandle
            /\ d_applied' = OrderBookNew("")
            /\ d_depth' = Depth("", <<>>, <<>>)
            /\ UNCHANGED cb_lock
    /\ UNCHANGED <<client, loops, dataVars, privVars, cacheVars, execVars, restVars,
                   bucketVars, signVars, books, data_callback, d_txt, reg_pc, delivered>>

\* cb.call1 is running the handler (data_client.rs:288, 308, 320): the interpreter
\* takes the interpreter lock from the thread of the handler to let other threads
\* run, and gives it back when it is free
HandlerSwitch ==
    /\ client = "book"
    /\ \/ /\ d_pc = "call"
          /\ gil' = "free"
          /\ d_pc' = "switched"
       \/ /\ d_pc = "switched"
          /\ gil = "free"
          /\ gil' = "loop"
          /\ d_pc' = "call"
    /\ UNCHANGED <<client, loops, dataVars, privVars, cacheVars, execVars, restVars,
                   bucketVars, signVars, books, data_callback, d_depth, book_clone, d_txt,
                   cb_lock, reg_pc, d_applied, delivered>>

\* dispatch_message, data_client.rs:286-290, 306-310, 318-322: the handler, called
\* with the record of the frame (book_clone for "orderbooks"), returns; the mutex
\* and the interpreter lock are released
CallHandler ==
    /\ client = "book"
    /\ d_pc = "call"
    /\ delivered' = IF book_clone # NoHandle
                    THEN [handle |-> book_clone, applied |-> d_applied]
                    ELSE delivered
    /\ book_clone' = NoHandle
    /\ d_applied' = OrderBookNew("")
    /\ d_depth' = Depth("", <<>>, <<>>)
    /\ cb_lock' = "free"
    /\ gil' = "free"
    /\ d_pc' = "idle"
    /\ UNCHANGED <<client, loops, dataVars, privVars, cacheVars, execVars, restVars,
                   bucketVars, signVars, books, data_callback, d_txt, reg_pc>>

----------------------------------------------------------------------------
(* TokenBucket: one bucket of capacity b_capacity and refill rate R, and one caller. *)
(* Time is counted in steps of 1/(R * TokenScale), the time 1/TokenScale of a token  *)
(* takes to accrue, so that 1/R is TokenScale steps.                                 *)

\* acquire() is called
AcquireCall ==
    /\ client = "bucket"
    /\ b_pc = "idle"
    /\ b_pc' = "acquiring"
    /\ b_waited' = 0
    /\ UNCHANGED <<client, loops, dataVars, privVars, cacheVars, execVars, restVars, bookVars,
                   signVars, b_capacity, b_tokens, b_burst>>

\* acquire() returns: the bucket holds a token, which is consumed
AcquireReturn ==
    /\ client = "bucket"
    /\ b_pc = "acquiring"
    /\ CanAcquire(b_tokens)
    /\ b_tokens' = Acquire(b_tokens)
    /\ b_burst' = IF b_burst >= 0 /\ b_waited = 0 THEN b_burst + 1 ELSE -1
    /\ b_waited' = 0
    /\ b_pc' = "idle"
    /\ UNCHANGED <<client, loops, dataVars, privVars, cacheVars, execVars, restVars, bookVars,
                   signVars, b_capacity>>

\* one step of time passes: the bucket refills up to its capacity.  No time passes
\* while an acquire() can return: it returns at once when a token is available.
BucketTick ==
    /\ client = "bucket"
    /\ ~(b_pc = "acquiring" /\ CanAcquire(b_tokens))
    /\ b_tokens' = Refill(b_tokens, b_capacity, 1)
    /\ b_waited' = IF b_pc = "acquiring" THEN b_waited + 1 ELSE b_waited
    /\ b_burst' = IF b_pc = "acquiring" THEN b_burst
                  ELSE IF b_tokens' = b_capacity * TokenScale THEN 0 ELSE -1
    /\ UNCHANGED <<client, loops, dataVars, privVars, cacheVars, execVars, restVars, bookVars,
                   signVars, b_capacity, b_pc>>

----------------------------------------------------------------------------
(* GmocoinRestClient: what private_get and private_request sign and send *)

\* a private request as its caller gives it, with the timestamp_ms() it is built at;
\* s_sent holds what the builder is given for it: the text signed for API-SIGN, the
\* query of the url and the body
Request(method, timestamp, endpoint, query, body) ==
    [method |-> method, timestamp |-> timestamp, endpoint |-> endpoint,
     query |-> query, body |-> body]


\* a variant that signs the query of a GET as well
GetSignsQuery(timestamp, endpoint, query) ==
    timestamp \o <<71, 69, 84>> \o endpoint \o unwrap_or_default(query)

\* format!("{}GET{}", timestamp, endpoint)  (rest.rs:488)
GetTextToSign(timestamp, endpoint, query) == timestamp \o <<71, 69, 84>> \o endpoint

\* format!("{}{}{}{}", timestamp, method_str, endpoint, body)  (rest.rs:536)
RequestTextToSign(timestamp, method, endpoint, body) ==
    LET method_str == CASE method = "POST" -> <<80, 79, 83, 84>>
                        [] method = "PUT" -> <<80, 85, 84>>
                        [] method = "DELETE" -> <<68, 69, 76, 69, 84, 69>>
    IN  timestamp \o method_str \o endpoint \o body

\* private_get, rest.rs:485-499
PrivateGet(timestamp, endpoint, query) ==
    /\ client = "sign"
    /\ s_prev' = <<s_req, s_sent>>
    /\ s_req' = Request("GET", timestamp, endpoint, query, <<>>)
    /\ s_sent' = [text |-> GetTextToSign(timestamp, endpoint, query), query |-> query,
                  body |-> <<>>]
    /\ UNCHANGED <<client, loops, dataVars, privVars, cacheVars, execVars, restVars, bookVars,
                   bucketVars>>

\* private_request, rest.rs:532-548
PrivateRequest(method, timestamp, endpoint, body) ==
    /\ client = "sign"
    /\ s_prev' = <<s_req, s_sent>>
    /\ s_req' = Request(method, timestamp, endpoint, None, body)
    /\ s_sent' = [text |-> RequestTextToSign(timestamp, method, endpoint, body),
                  query |-> None, body |-> body]
    /\ UNCHANGED <<client, loops, dataVars, privVars, cacheVars, execVars, restVars, bookVars,
                   bucketVars>>

----------------------------------------------------------------------------
(* GmocoinDataClient: connect() and disconnect() at any time.  Every thread   *)
(* connect() spawns runs ws_loop on the same flags, by its positions around   *)
(* the loads of the shutdown flag and the stores of the connected flag.       *)

\* connect() (data_client.rs:52-85): both flags are cleared and a thread is spawned
\* that runs ws_loop, whatever the threads of earlier calls are doing
connect ==
    /\ client = "loops"
    /\ Len(loops) < MaxConnects
    /\ shutdown' = FALSE
    /\ connected' = FALSE
    /\ loops' = Append(loops, "top")
    /\ UNCHANGED <<client, subscriptions, outgoing, ws_tokens, pc, backoff_sec, to_send,
                   draining, frame, ws, call, calls, sent, sent_q, at_frame, acquires,
                   since_acq, fails, subs_at_conn, privVars, cacheVars, execVars, restVars,
                   bookVars, bucketVars, signVars>>

\* disconnect() (data_client.rs:116-123): the shutdown flag is set
disconnect ==
    /\ client = "loops"
    /\ loops # <<>>
    /\ ~shutdown
    /\ shutdown' = TRUE
    /\ UNCHANGED <<client, loops, subscriptions, outgoing, connected, ws_tokens, pc,
                   backoff_sec, to_send, draining, frame, ws, call, calls, sent, sent_q,
                   at_frame, acquires, since_acq, fails, subs_at_conn, privVars, cacheVars,
                   execVars, restVars, bookVars, bucketVars, signVars>>

\* one step of the ws_loop of the i-th connect() call: at the top of the reconnect
\* loop (154) and after a connection or an attempt (269, with the sleep that follows)
\* it loads the shutdown flag; connect_async succeeds (162) or fails (264); in the
\* message loop it finds the shutdown flag set (199-202) or the stream ends (246-262)
ws_loop(i) ==
    /\ client = "loops"
    /\ i \in 1..Len(loops)
    /\ \/ /\ loops[i] = "top"
          /\ loops' = [loops EXCEPT ![i] = AfterShutdownLoad(shutdown, "connecting")]
          /\ UNCHANGED connected
       \/ /\ loops[i] = "connecting"
          /\ loops' = [loops EXCEPT ![i] = "streaming"]
          /\ connected' = TRUE
       \/ /\ loops[i] = "connecting"
          /\ loops' = [loops EXCEPT ![i] = "after"]
          /\ UNCHANGED connected
       \/ /\ loops[i] = "streaming"
          /\ shutdown
          /\ loops' = [loops EXCEPT ![i] = "terminated"]
          /\ connected' = FALSE
       \/ /\ loops[i] = "streaming"
          /\ loops' = [loops EXCEPT ![i] = "after"]
          /\ connected' = FALSE
       \/ /\ loops[i] = "after"
          /\ loops' = [loops EXCEPT ![i] = AfterShutdownLoad(shutdown, "top")]
          /\ UNCHANGED connected
    /\ UNCHANGED <<client, subscriptions, outgoing, shutdown, ws_tokens, pc, backoff_sec,
                   to_send, draining, frame, ws, call, calls, sent, sent_q, at_frame,
                   acquires, since_acq, fails, subs_at_conn, privVars, cacheVars, execVars,
                   restVars, bookVars, bucketVars, signVars>>

----------------------------------------------------------------------------
(* The specification *)

\* the state after GmocoinDataClient::new and GmocoinExecutionClient::new
Init ==
    /\ client \in {"data", "private", "exec", "rest", "book", "bucket", "sign", "loops"}
    /\ subscriptions = {}
    /\ outgoing = <<>>
    /\ shutdown = FALSE
    /\ connected = FALSE
    /\ ws_tokens = ws_capacity * TokenScale
    /\ pc = "none"
    /\ backoff_sec = 1
    /\ to_send = <<>>
    /\ draining = <<>>
    /\ frame = "none"
    /\ ws = "none"
    /\ call = NoCall
    /\ calls = 0
    /\ sent = <<>>
    /\ sent_q = <<>>
    /\ at_frame = <<>>
    /\ acquires = 0
    /\ since_acq = MinInterval
    /\ fails = 0
    /\ subs_at_conn = {}
    /\ p_shutdown = FALSE
    /\ p_pc = "none"
    /\ p_backoff = p_initial_backoff
    /\ p_token = "none"
    /\ p_left = <<>>
    /\ p_tokens = p_sub_capacity * TokenScale
    /\ p_elapsed = 0
    /\ p_ws = "none"
    /\ p_fails = 0
    /\ p_uses = 0
    /\ p_open = 0
    /\ p_renewed = FALSE
    /\ orders = {}
    /\ order_callback = FALSE
    /\ p_msg = NoMsg
    /\ p_kind = "none"
    /\ p_txt = NoMsg
    /\ p_latest = [id \in OrderIds |-> NoMsg]
    /\ p_seen = {}
    /\ p_stop_wanted = FALSE
    /\ client_oid_map = {}
    /\ x_call = NoCommand
    /\ x_result = <<"none", 0>>
    /\ x_latest = [c \in ClientOids |-> NoAnswer]
    /\ rate \in IF client = "rest" THEN 1..MaxRate ELSE {1}
    /\ r_get_tokens = rate * TokenScale
    /\ r_post_tokens = rate * TokenScale
    /\ r_pc = "idle"
    /\ r_call = NoPrimitive
    /\ r_body = <<>>
    /\ r_result = NoResult
    /\ r_acquired = [get |-> 0, post |-> 0]
    /\ r_sends = 0
    /\ books = {}
    /\ data_callback = FALSE
    /\ d_pc = "idle"
    /\ d_depth = Depth("", <<>>, <<>>)
    /\ book_clone = NoHandle
    /\ d_txt = <<>>
    /\ gil = "free"
    /\ cb_lock = "free"
    /\ reg_pc = "idle"
    /\ d_applied = OrderBookNew("")
    /\ delivered = [handle |-> NoHandle, applied |-> OrderBookNew("")]
    /\ b_capacity \in IF client = "bucket" THEN 1..MaxCapacity ELSE {1}
    /\ b_tokens = b_capacity * TokenScale
    /\ b_pc = "idle"
    /\ b_burst = 0
    /\ b_waited = 0
    /\ s_req = Request("none", <<>>, <<>>, None, <<>>)
    /\ s_sent = [text |-> <<>>, query |-> None, body |-> <<>>]
    /\ s_prev = <<s_req, s_sent>>
    /\ loops = <<>>

\* the timestamps of the signing part are "1" and "2", the endpoints "/a" and "/b",
\* the queries "x" and "y", the body "{}"
Next ==
    \/ NextData
    \/ NextPriv
    \/ NextExec
    \/ NextRest
    \/ SetDataCallbackCall
    \/ SetDataCallback
    \/ \E text \in DataTexts : TextArm(text)
    \/ Attach
    \/ LockHandler
    \/ HandlerSwitch
    \/ CallHandler
    \/ AcquireCall
    \/ AcquireReturn
    \/ BucketTick
    \/ \E timestamp \in {<<49>>, <<50>>}, endpoint \in {<<47, 97>>, <<47, 98>>} :
           \/ \E query \in {None, Some(<<120>>), Some(<<121>>)} :
                  PrivateGet(timestamp, endpoint, query)
           \/ \E method \in {"POST", "PUT", "DELETE"}, body \in {<<>>, <<123, 125>>} :
                  PrivateRequest(method, timestamp, endpoint, body)
    \/ connect
    \/ disconnect
    \/ \E i \in 1..MaxConnects : ws_loop(i)

Spec == Init /\ [][Next]_vars

\* the loops run on their own threads, connect_async, sleep and the REST calls
\* return, and time passes; nothing obliges the venue to send a frame or the
\* application to make a call
FairSpec ==
    /\ Spec
    /\ WF_vars(DataLoop)
    /\ WF_vars(Tick)
    /\ WF_vars(PrivLoop)
    /\ WF_vars(PTick)

\* the same for a behaviour of the private client, in which the steps of the
\* market-data loop are never enabled
FairPrivateSpec ==
    /\ Spec
    /\ WF_vars(PrivLoop)
    /\ WF_vars(PTick)

\* the same for a behaviour of the market-data client; a subscribe call that has
\* stored its tuple goes on to its end
FairDataSpec ==
    /\ Spec
    /\ WF_vars(DataLoop)
    /\ WF_vars(Tick)
    /\ WF_vars(SubscribeCheck \/ SubscribePush)

----------------------------------------------------------------------------
(* Claims *)

\* the subscribe command of a stored tuple
CommandOf(t) == build_subscribe_msg(t[1], t[2], Some(t[3]))

\* log holds exactly one command per tuple of subs, in ascending order
OncePerTupleSorted(log, subs) ==
    /\ Len(log) = Cardinality(subs)
    /\ \A t \in subs : \E i \in 1..Len(log) : log[i] = CommandOf(t)
    /\ \A i \in 1..Len(log) : \A j \in 1..Len(log) : i < j => LexLess(log[i], log[j])

\* C1: when no tuple was added to the Subscription set after the connection was
\* opened (every subscribe call came before it), the commands sent while
\* Resubscribing are exactly one per distinct tuple of the set, in sorted order; each
\* send is preceded by its own acquire() on ws_rate_limit, and an acquire() returns
\* no sooner than the limiter's minimum interval after the one before it.
C1_SubscriptionReplay ==
    [][ /\ (pc' \in StreamingPcs /\ subscriptions' = subs_at_conn')
            => OncePerTupleSorted(sent', subscriptions')
        /\ Len(sent') > Len(sent) => acquires = Len(sent) + 1
        /\ acquires' > acquires
            => (acquires = Len(sent) /\ since_acq >= MinInterval)
      ]_vars

\* two tuples stored before the connection, whose commands sort in the other order
\* than the tuples, have both been replayed
C1_Witness ==
    /\ pc = "stream_top"
    /\ call = NoCall
    /\ subscriptions = subs_at_conn
    /\ subscriptions = { <<S_trades, S_BTC_JPY, S_empty>>,
                         <<S_trades, S_BTC_JPY, S_TAKER_ONLY>> }
    /\ sent = << CommandOf(<<S_trades, S_BTC_JPY, S_TAKER_ONLY>>),
                 CommandOf(<<S_trades, S_BTC_JPY, S_empty>>) >>
    /\ acquires = 2

\* C2: no step removes a tuple from the Subscription set, and once Resubscribing is
\* over on a connection, a subscribe command has been sent for every tuple that was in
\* the set when the connection was opened.
C2_SubscriptionsPersist ==
    [][ /\ subscriptions \subseteq subscriptions'
        /\ pc' \in StreamingPcs
            => \A t \in subs_at_conn' : \E i \in 1..Len(sent') : sent'[i] = CommandOf(t)
      ]_vars

\* a tuple was replayed on a connection and the set has grown since
C2_Witness ==
    /\ pc = "recv"
    /\ Cardinality(subs_at_conn) = 1
    /\ Cardinality(subscriptions) = 2
    /\ Len(sent) = 1

\* C3: a subscribe call stores its tuple; its connected.load() leaves the queue alone
\* and, when the flag is clear, ends the call; when the flag is set the call goes on
\* to append exactly its one command to the queue.
C3_SubscribeEffect ==
    [][ /\ (call = NoCall /\ call' # NoCall)
            => (CallTuple(call') \in subscriptions' /\ outgoing' = outgoing)
        /\ (call.at = "check" /\ call' # call)
            => /\ outgoing' = outgoing
               /\ CallTuple(call) \in subscriptions'
               /\ IF connected THEN call'.at = "push" ELSE call' = NoCall
        /\ (call.at = "push" /\ call' # call)
            => /\ call' = NoCall
               /\ CallTuple(call) \in subscriptions'
               /\ outgoing' = Append(outgoing,
                      build_subscribe_msg(call.channel, call.symbol, call.option))
      ]_vars

\* one call returned while the client was not connected (queue untouched), another
\* was made on the connection and pushed its command
C3_Witness ==
    /\ connected
    /\ call = NoCall
    /\ subs_at_conn = { <<S_ticker, S_BTC_JPY, S_empty>> }
    /\ subscriptions = subs_at_conn \cup { <<S_trades, S_BTC_JPY, S_TAKER_ONLY>> }
    /\ outgoing = << CommandOf(<<S_trades, S_BTC_JPY, S_TAKER_ONLY>>) >>

\* the delay of the n-th consecutive backoff wait, counted from 0
RetryDelays == <<1, 2, 4, 8, 16, 32, 64>>
ExpectedDelay(n) == RetryDelays[Min(n, 6) + 1]

\* C4: the delay the market-data loop waits after its n-th consecutive failure since
\* it started or last connected is 1, 2, 4, 8, 16, 32, 64, 64, ...: it never exceeds
\* 64 and is 1 again for the first wait after a successful connection.
C4_Backoff ==
    client = "data" => (backoff_sec = ExpectedDelay(fails) /\ backoff_sec <= 64)

\* after a connection that was opened and lost, the loop waits 64 for the second time
C4_Witness ==
    /\ pc = "sleep"
    /\ ws = "dropped"
    /\ fails = 7
    /\ backoff_sec = 64

\* C5: a loop returns only when its shutdown flag is set; a failed connect, a lost
\* connection and (private loop) a failed token acquisition or renewal lead to the
\* backoff wait and from there to the top of the loop and the next attempt.
C5_LoopsKeepRunning ==
    [][ /\ (pc' = "terminated" /\ pc # "terminated") => shutdown
        /\ (pc = "connecting" /\ pc' # pc /\ ws' # "open") => pc' = "after"
        /\ (pc = "recv" /\ ws' # "open") => pc' = "after"
        /\ (pc = "after" /\ pc' # pc /\ ~shutdown) => pc' = "sleep"
        /\ (pc = "sleep" /\ pc' # pc) => pc' = "top"
        /\ (pc = "top" /\ pc' # pc /\ ~shutdown) => pc' = "connecting"
        /\ (p_pc' = "terminated" /\ p_pc # "terminated") => p_shutdown
        /\ (p_pc = "auth" /\ p_pc' # p_pc /\ p_token' # "held") => p_pc' = "auth_sleep"
        /\ (p_pc \in {"auth_sleep", "url_sleep"} /\ p_pc' # p_pc) => p_pc' = "top"
        /\ (p_pc = "connecting" /\ p_pc' # p_pc /\ p_ws' # "open") => p_pc' = "after"
        /\ (p_pc \in {"renew", "recv"} /\ p_ws' # "open") => p_pc' = "after"
        /\ (p_pc = "after" /\ p_pc' # p_pc /\ ~p_shutdown) => p_pc' = "sleep"
        /\ (p_pc = "sleep" /\ p_pc' # p_pc) => p_pc' = "top"
        /\ (p_pc = "top" /\ p_pc' # p_pc /\ ~p_shutdown) => p_pc' = "auth"
      ]_vars

\* the market-data loop lost a connection, failed twice to connect and is connecting
\* again, with the shutdown flag clear
C5_Witness ==
    /\ pc = "connecting"
    /\ ws = "dropped"
    /\ fails = 3
    /\ ~shutdown

\* C6: while the shutdown flag of the market-data client stays set, the loop starts
\* no connection attempt; at the top of the message loop it sends a close frame,
\* clears connected and returns; after a failed attempt and at the top of the
\* reconnect loop it returns; a backoff wait leads to the top of the loop.
C6_ShutdownStopsReconnect ==
    [][ (shutdown /\ shutdown') =>
          /\ (pc # "connecting" => pc' # "connecting")
          /\ (pc = "stream_top" /\ pc' # pc)
                => (pc' = "terminated" /\ ws' = "closing" /\ ~connected')
          /\ (pc \in {"top", "after"} /\ pc' # pc) => pc' = "terminated"
          /\ (pc = "sleep" /\ pc' # pc) => pc' = "top"
      ]_vars

\* the loop has closed its stream and returned after disconnect()
C6_Witness ==
    /\ pc = "terminated"
    /\ ws = "closing"
    /\ shutdown
    /\ ~connected

\* C7: once the shutdown flag is set, a running market-data loop eventually returns,
\* wherever it is.
C7_ShutdownTerminates == (shutdown /\ pc # "none") ~> (pc = "terminated")

\* the delay of the n-th consecutive backoff wait of the private loop, counted from 0
PRetryDelays == <<5, 10, 20, 40, 60>>
PExpectedDelay(n) == PRetryDelays[Min(n, 4) + 1]

\* C8: after a failed token acquisition the private loop waits its backoff delay,
\* which is 5, 10, 20, 40, 60, 60, ... for consecutive waits, and goes back to the top
\* of the loop, from where it acquires a token again; the URL and connection steps
\* are entered only from a token acquisition that succeeded.
C8_TokenFailureBacksOff ==
    [][ /\ (p_pc = "auth" /\ p_pc' # p_pc /\ p_token' # "held") => p_pc' = "auth_sleep"
        /\ (p_pc = "auth_sleep" /\ p_pc' # p_pc)
            => /\ p_pc' = "top"
               /\ p_backoff = PExpectedDelay(p_fails)
               /\ p_token' = "none"
        /\ (p_pc = "top" /\ p_pc' # p_pc /\ ~p_shutdown) => p_pc' = "auth"
        /\ (p_pc' = "url" /\ p_pc # "url") => (p_pc = "auth" /\ p_token' = "held")
        /\ (p_pc' = "connecting" /\ p_pc # "connecting") => p_pc = "url"
      ]_vars

\* the private loop waits 60 for the second time after token acquisitions failed
C8_Witness ==
    /\ p_pc = "auth_sleep"
    /\ p_ws = "none"
    /\ p_fails = 5
    /\ p_backoff = 60

\* C9: the private loop attempts a connection only with a token acquired in the same
\* iteration and not used for an attempt before; no token is used for two attempts,
\* and none is held at the top of the loop or while a token is being acquired.
C9_FreshToken ==
    client = "private" =>
        /\ p_pc \in {"url", "connecting"} => (p_token = "held" /\ p_uses = 0)
        /\ p_uses <= 1
        /\ p_pc \in {"top", "auth", "auth_sleep"} => p_token = "none"

\* after a lost connection and a backoff wait the loop attempts a connection with a
\* token not used before
C9_Witness ==
    /\ p_pc = "connecting"
    /\ p_ws = "dropped"
    /\ p_fails = 1
    /\ p_token = "held"
    /\ p_uses = 0

\* seconds since the last successful renewal on the open private connection or, when
\* there was none, since the stream was opened
SinceRenewalOrOpen == IF p_renewed THEN p_elapsed ELSE p_open

\* C10 as stated: at the top of the message loop, when the renewal interval has
\* elapsed since the last renewal or since the stream was opened, a renewal call is
\* issued.
C10_AsStated ==
    [][ (p_pc = "stream_top" /\ p_pc' # p_pc /\ ~p_shutdown
            /\ SinceRenewalOrOpen >= refresh_interval)
          => p_pc' = "renew"
      ]_vars

\* C10, amended: at the top of the message loop a renewal call is issued exactly when
\* the renewal interval has elapsed since last_refresh, which is set when the message
\* loop is entered (after the subscribe commands were sent) and on every successful
\* renewal; the loop waits for a frame only when no renewal was due or the renewal
\* succeeded; a successful renewal resets the elapsed time; a failed one abandons the
\* connection, and the next connection attempt is made with a newly acquired token.
C10_Renewal ==
    [][ /\ (p_pc = "stream_top" /\ p_pc' # p_pc /\ ~p_shutdown)
            => (p_pc' = "renew" <=> p_elapsed >= refresh_interval)
        /\ (p_pc' = "recv" /\ p_pc # "recv")
            => \/ p_pc = "stream_top" /\ p_elapsed < refresh_interval
               \/ p_pc = "renew" /\ p_elapsed' = 0
        /\ (p_pc = "renew" /\ p_pc' \notin {"renew", "recv"})
            => (p_pc' = "after" /\ p_ws' = "dropped")
        /\ (p_pc' = "connecting" /\ p_pc # "connecting")
            => (p_token = "held" /\ p_uses = 0)
      ]_vars

\* a renewal succeeded on the open connection and the elapsed time was reset
C10_Witness ==
    /\ p_pc = "recv"
    /\ p_ws = "open"
    /\ p_renewed
    /\ p_elapsed = 0

\* C11: on an open private connection, once the renewal interval has elapsed since
\* the last renewal, a renewal call is eventually issued (unless the connection ends
\* first), whether or not an inbound frame arrives.
C11_RenewalEventuallyIssued ==
    (p_ws = "open" /\ p_pc \in PStreamingPcs /\ p_elapsed >= refresh_interval)
        ~> (p_pc = "renew" \/ p_ws # "open")

\* C12: once the application has asked for the private client to stop, the private
\* loop honours it the way the market-data loop honours its shutdown flag: at the
\* top of the reconnect loop and after a failed attempt or lost connection it
\* terminates instead of acquiring a token or connecting again, and at the top of
\* the message loop it closes the stream and terminates.
C12_ShutdownHonoured ==
    [][ p_stop_wanted
          => /\ (p_pc \in {"top", "after"} /\ p_pc' # p_pc) => p_pc' = "terminated"
             /\ (p_pc = "stream_top" /\ p_pc' # p_pc)
                  => (p_pc' = "terminated" /\ p_ws' = "closing")
      ]_vars

\* C13: the cache holds at most one record per order id, it holds one exactly for
\* the ids some order-update frame was decoded with, and the record it holds is the
\* one decoded from the latest such frame.
C13_LatestOrderCached ==
    \A id \in OrderIds :
        /\ Cardinality({e \in orders : e[1] = id}) <= 1
        /\ (p_latest[id] = NoMsg) <=> ~(\E e \in orders : e[1] = id)
        /\ \A e \in orders : e[1] = id => e[2] = p_latest[id].order

\* two different records were decoded for order 42 and the cache holds only the
\* later one
C13_Witness ==
    /\ {r \in p_seen : r.order_id = 42} = {OrderRec(42, "ORDERED"), OrderRec(42, "CANCELED")}
    /\ orders = {<<42, OrderRec(42, "CANCELED")>>}

\* the handler is being called with kind OrderUpdate
OrderUpdateDispatch == p_pc = "callback" /\ order_callback /\ p_kind = "OrderUpdate"

C15_CacheChangedOnlyByOrderFrames ==
    [][ /\ orders' # orders
            => /\ client = "private"
               /\ p_pc = "recv" /\ p_pc' = "callback"
               /\ p_msg'.json /\ ~p_msg'.error
               /\ p_msg'.channel = "orderEvents"
               /\ p_msg'.order # DecodeErr
        /\ \A e \in orders : \E f \in orders' : f[1] = e[1]
      ]_vars

\* an execution frame that decodes as an Order for id 43 is being dispatched and the
\* cache still holds only order 42
C15_Witness ==
    /\ p_pc = "callback"
    /\ p_kind = "ExecutionUpdate"
    /\ p_msg.order = OrderRec(43, "EXECUTED")
    /\ orders = {<<42, OrderRec(42, "ORDERED")>>}

\* C16: between commands the client-order-id map holds, for exactly the client
\* order ids some submit was answered for with an order id, the id of the latest such
\* answer; a submit whose REST call fails returns the error and leaves the map
\* unchanged; and no step removes a key.
C16_ClientOidMap ==
    [][ /\ x_call' = NoCommand
            => \A c \in ClientOids :
                 {e \in client_oid_map' : e[1] = c}
                   = IF x_latest'[c] = NoAnswer THEN {}
                     ELSE {<<c, OrderIdAnswered(x_latest'[c])>>}
        /\ (x_call.op = "submit_order" /\ x_call.at = "rest" /\ x_call' = NoCommand)
            => (x_result'[1] = "Err" /\ client_oid_map' = client_oid_map)
        /\ \A e \in client_oid_map : \E f \in client_oid_map' : f[1] = e[1]
      ]_vars

\* c1 was submitted twice and answered with 7 and then 8, c2 was answered 7, and the
\* last submit failed
C16_Witness ==
    /\ x_call = NoCommand
    /\ x_result[1] = "Err"
    /\ client_oid_map = {<<"c1", 8>>, <<"c2", 7>>}


\* a primitive has returned to its caller with the result of a response text
RestReturned == client = "rest" /\ r_pc = "idle" /\ r_body # <<>>

\* C17: for every response envelope with a non-zero status the REST client returns
\* ExchangeError{status, messages} with that status, where messages is the
\* message_string fields joined by "; " or the fallback placeholder when messages is
\* missing or not an array; it never returns a success value for a non-zero status.
C17_NonZeroStatusIsExchangeError ==
    (/\ RestReturned
     /\ r_body[1].json
     /\ r_body[1].status[1] = "int"
     /\ r_body[1].status # I64(0, 0))
        => /\ r_result.kind # "Ok"
           /\ r_result.kind = "ExchangeError"
           /\ r_body[1].status[2] = 0 /\ r_result.status = r_body[1].status[3]
           /\ r_result.messages =
                  IF r_body[1].messages[1] = "array"
                  THEN <<"joined", Join(MessageStrings(r_body[1].messages[2]))>>
                  ELSE <<"fallback", <<>>>>

\* C18: a response envelope with status 0 and no data yields an Unknown error, and
\* one whose data does not decode to the requested type yields an error; a success
\* value is always the decoded data of the envelope, never a default.
C18_NoDefaultedSuccess ==
    (/\ RestReturned
     /\ r_body[1].json
     /\ r_body[1].status = I64(0, 0))
        => /\ r_body[1].data = DataAbsent => r_result.kind = "Unknown"
           /\ (r_body[1].data # DataAbsent /\ ~Decodes(r_call.T, r_body[1].data))
                  => r_result.kind \in {"Unknown", "ParseError"}
           /\ r_result.kind = "Ok"
                  => /\ r_body[1].data # DataAbsent
                     /\ Decodes(r_call.T, r_body[1].data)
                     /\ r_result.value = r_body[1].data

C18_Witness ==
    /\ RestReturned
    /\ r_body[1].json
    /\ r_body[1].status = I64(0, 0)
    /\ r_body[1].data = DataAbsent
    /\ r_call.T = "List"
    /\ r_result.kind = "Unknown"

\* the traffic class of a call: GET, or POST/PUT/DELETE
ClassOfCall ==
    IF r_call.prim \in {"public_get", "public_get_raw", "private_get"} THEN "get"
    ELSE "post"

\* C19: every REST call performs exactly one acquire() on the limiter of its traffic
\* class, completed before the HTTP request is sent, and none on the other limiter:
\* GET calls use the GET limiter, POST/PUT/DELETE calls the POST limiter; a call
\* waiting in acquire() proceeds as soon as the bucket of its own class holds a
\* token, whatever the bucket of the other class holds.
C19_OneAcquireOnOwnLimiter ==
    (client = "rest" /\ r_call # NoPrimitive)
        => /\ r_pc = "acquire" => r_acquired = [get |-> 0, post |-> 0] /\ r_sends = 0
           /\ r_pc # "acquire"
                  => r_acquired = [l \in {"get", "post"} |->
                                       IF l = ClassOfCall THEN 1 ELSE 0]
           /\ r_sends > 0 => r_acquired[ClassOfCall] = 1
           /\ (/\ r_pc = "acquire"
               /\ (IF ClassOfCall = "get" THEN r_get_tokens ELSE r_post_tokens)
                      >= TokenScale)
                  => ENABLED RestAcquire

C19_Witness ==
    /\ client = "rest"
    /\ r_pc = "send"
    /\ r_call.prim = "private_get"
    /\ r_acquired = [get |-> 1, post |-> 0]
    /\ r_post_tokens = 0

\* C20: a REST call that the venue rejects or that fails in transport returns that
\* error to its caller and is not tried again: each invocation of a primitive sends
\* at most one HTTP request.
C20_NoRetry ==
    client = "rest"
        => /\ r_sends <= 1
           /\ r_result.kind \in {"ExchangeError", "RequestError"}
                  => r_pc = "idle" /\ r_sends = 1

C20_Witness ==
    /\ RestReturned
    /\ r_result.kind = "ExchangeError"
    /\ r_sends = 1


\* the commands transmitted on the open market-data connection, in order
Transmitted == sent \o sent_q

\* C25: on one market-data connection no subscribe command is transmitted more than
\* once, whenever the subscribe calls are made.
C25_NoDuplicateTransmission ==
    \A i \in 1..Len(Transmitted) : \A j \in 1..Len(Transmitted) :
        i # j => Transmitted[i] # Transmitted[j]

\* C26: every subscribe command transmitted on the market-data stream, while
\* Resubscribing or from the queue while Streaming, is preceded by its own acquire()
\* on ws_rate_limit.
C26_EveryTransmissionAcquires ==
    [][ Len(Transmitted') > Len(Transmitted) => acquires = Len(Transmitted) + 1 ]_vars

\* C27: a command that is in the queue while the loop is Streaming is eventually
\* taken from the queue and transmitted on that connection (or the connection
\* ends), whether or not a frame arrives.
C27_QueuedEventuallySent ==
    (pc \in StreamingPcs /\ outgoing # <<>>) ~> (outgoing = <<>> \/ pc \notin StreamingPcs)

\* the loop is suspended: in connect_async, in acquire(), in ws.send, in ws.next or
\* in sleep
LoopSuspended ==
    \/ pc \in {"connecting", "resub_acquire", "resub_send", "recv", "sleep"}
    \/ pc = "drain" /\ draining # <<>>

\* C28: whenever the market-data loop is suspended the queue mutex is free, and a
\* subscribe call waiting to push its command can do so.
C28_NoLockAcrossSuspension ==
    (client = "data" /\ LoopSuspended)
        => /\ ~QueueLocked
           /\ call.at = "push" => ENABLED SubscribePush

\* C30: when the loop goes on to a text frame (decode and dispatch) or a ping (pong),
\* the commands that were in the queue when the frame arrived have been transmitted,
\* in queue order, as the last transmissions, and the queue is empty.
C30_DrainBeforeFrame ==
    [][ (frame # "none" /\ frame' = "none")
            => /\ outgoing = <<>>
               /\ Len(sent_q) >= Len(at_frame)
               /\ SubSeq(sent_q, Len(sent_q) - Len(at_frame) + 1, Len(sent_q)) = at_frame
      ]_vars

\* two commands were queued when a text frame arrived and both have been sent, in
\* queue order, before the frame is decoded
C30_Witness ==
    /\ pc = "drain"
    /\ frame = "text"
    /\ draining = <<>>
    /\ Len(at_frame) = 2
    /\ at_frame[1] # at_frame[2]
    /\ sent_q = at_frame


\* the levels are in strictly ascending (asks) or descending (bids) order of price
StrictlySorted(levels, side) ==
    \A i \in 1..Len(levels) : \A j \in 1..Len(levels) :
        i < j => IF side = "asks" THEN levels[i][1] < levels[j][1]
                 ELSE levels[i][1] > levels[j][1]

\* C21: in every order book of the engine, after any sequence of snapshots, the
\* levels of a side have distinct prices, asks are in ascending and bids in descending
\* order of price, and no level has size zero.
C21_BookInvariant ==
    \A e \in books :
        /\ StrictlySorted(e[2].asks, "asks")
        /\ StrictlySorted(e[2].bids, "bids")
        /\ \A l \in Range(e[2].asks) \cup Range(e[2].bids) : l[2] # 0

\* two symbols have a book, and the book of BTC_JPY holds two levels on each side
\* after snapshots that listed them in another order and with levels of size zero
C21_Witness ==
    /\ Cardinality(books) = 2
    /\ \E e \in books :
         /\ e[2].asks = << <<99, 2>>, <<100, 1>> >>
         /\ e[2].bids = << <<97, 1>>, <<96, 2>> >>

\* side holds exactly the levels of given that have a size
ExactlyNonZero(side, given) ==
    /\ Range(side) = {l \in Range(given) : l[2] # 0}
    /\ Len(side) = Cardinality(Range(side))

\* C22: after a snapshot is applied, each side of the book of its symbol holds
\* exactly the levels of that snapshot that have a size, in the order of the side,
\* whatever the book held before; the books of other symbols are left alone.
C22_FullReplace ==
    [][ (d_pc = "idle" /\ d_pc' = "attach" /\ d_txt'.channel = "orderbooks")
            => /\ \E e \in books' :
                    /\ e[1] = d_depth'.symbol
                    /\ ExactlyNonZero(e[2].asks, d_depth'.asks)
                    /\ ExactlyNonZero(e[2].bids, d_depth'.bids)
                    /\ StrictlySorted(e[2].asks, "asks")
                    /\ StrictlySorted(e[2].bids, "bids")
               /\ \A e \in books : e[1] # d_depth'.symbol => e \in books'
      ]_vars

\* the snapshot asks [(100,1),(101,0),(99,2)], bids [(98,3)] was applied to a book
\* that held the ask (101,3) and other bids, which the handler was given
C22_Witness ==
    /\ d_pc = "attach"
    /\ d_depth = Depth("BTC_JPY", << <<100, 1>>, <<101, 0>>, <<99, 2>> >>, << <<98, 3>> >>)
    /\ delivered.applied.asks = << <<101, 3>> >>
    /\ delivered.applied.bids = << <<97, 1>>, <<96, 2>> >>
    /\ \E e \in books :
         /\ e[1] = "BTC_JPY"
         /\ e[2].asks = << <<99, 2>>, <<100, 1>> >>
         /\ e[2].bids = << <<98, 3>> >>

\* the book the application finds in what it was handed
Deref(handle, map) == IF handle.kind = "shared" THEN EntryOrNew(map, handle.symbol)
                      ELSE handle.book

\* C23: the order book handed to the handler for a snapshot is the book of the
\* engine as it was right after that snapshot was applied, and stays so whatever
\* is applied later; it is handed over in a step of its own, after the step that
\* applied the snapshot and took the copy under the books mutex.
C23_DeliveredCopy ==
    [][ /\ delivered'.handle.kind # "none"
            => Deref(delivered'.handle, books') = delivered'.applied
        /\ delivered' # delivered
            => /\ d_pc = "call"
               /\ books' = books
               /\ delivered'.applied = d_applied
               /\ delivered'.handle = book_clone
      ]_vars

\* the application holds the copy of an earlier snapshot of the symbol, and another
\* snapshot has since been applied to the book of the engine
C23_Witness ==
    /\ d_pc = "attach"
    /\ delivered.handle.kind = "copy"
    /\ delivered.handle.symbol = d_depth.symbol
    /\ delivered.applied # d_applied
    /\ delivered.handle.book = delivered.applied


\* C24: the token count of a bucket of capacity C stays between 0 and C; the first
\* C acquire() calls made on a full bucket with no time passing return without
\* waiting, and the one after them returns after waiting 1/R, the time one token
\* takes to accrue.
C24_TokenBucket ==
    [][ /\ b_tokens' >= 0
        /\ b_tokens' <= b_capacity * TokenScale
        /\ (b_pc = "acquiring" /\ b_pc' = "idle")
            => /\ b_burst \in 0..(b_capacity - 1) => b_waited = 0
               /\ b_burst = b_capacity => b_waited = TokenScale
      ]_vars

\* a bucket of capacity 2 was full, two acquire() calls returned at once, and the
\* third has waited 1/R and is about to return
C24_Witness ==
    /\ b_capacity = 2
    /\ b_pc = "acquiring"
    /\ b_burst = 2
    /\ b_waited = TokenScale
    /\ CanAcquire(b_tokens)


\* the name of a method as the venue reads it in the signed text
MethodName(method) ==
    IF method = "POST" THEN <<80, 79, 83, 84>>
    ELSE IF method = "PUT" THEN <<80, 85, 84>>
    ELSE <<68, 69, 76, 69, 84, 69>>

\* C29: the text signed for a private GET is timestamp + "GET" + path, whatever its
\* query, so that two GETs with the same timestamp and path have the same signed
\* text; the text signed for a POST, PUT or DELETE is timestamp + method + path +
\* body.
C29_SignedText ==
    /\ s_req.method = "GET"
        => /\ s_sent.text = s_req.timestamp \o <<71, 69, 84>> \o s_req.endpoint
           /\ (/\ s_prev[1].method = "GET"
               /\ s_prev[1].timestamp = s_req.timestamp
               /\ s_prev[1].endpoint = s_req.endpoint)
                  => s_prev[2].text = s_sent.text
    /\ s_req.method \in {"POST", "PUT", "DELETE"}
        => s_sent.text =
               s_req.timestamp \o MethodName(s_req.method) \o s_req.endpoint \o s_req.body

\* two GETs of the same path at the same timestamp, sent with different queries
C29_Witness ==
    /\ s_req.method = "GET"
    /\ s_prev[1].method = "GET"
    /\ s_prev[1].timestamp = s_req.timestamp
    /\ s_prev[1].endpoint = s_req.endpoint
    /\ s_req.query # None
    /\ s_prev[1].query # None
    /\ s_prev[1].query # s_req.query
    /\ s_sent.query = s_req.query
    /\ s_prev[2].query = s_prev[1].query

\* the four event channels, in the order they are subscribed
C33Channels ==
    <<"executionEvents", "orderEvents", "positionEvents", "positionSummaryEvents">>

\* C33: after each successful private connection the loop sends exactly four
\* subscribe commands, the k-th for the k-th of executionEvents, orderEvents,
\* positionEvents, positionSummaryEvents, each right after an acquire() on the
\* subscribe limiter that took a token, and it handles no inbound frame before the
\* fourth is sent.
C33_FourSubscribes ==
    [][ /\ (p_pc = "connecting" /\ p_ws' = "open")
            => p_pc' = "sub_acquire" /\ Len(p_left') = 4
        /\ (p_pc' = "sub_acquire" /\ p_pc \notin {"sub_acquire", "sub_send"})
            => p_pc = "connecting" /\ p_ws' = "open"
        /\ (p_pc' = "sub_send" /\ p_pc # "sub_send")
            => /\ p_pc = "sub_acquire"
               /\ p_tokens >= TokenScale
               /\ p_tokens' = p_tokens - TokenScale
        /\ (p_pc = "sub_send" /\ p_pc' # "sub_send")
            => /\ Len(p_left) \in 1..4
               /\ Head(p_left) = C33Channels[5 - Len(p_left)]
               /\ p_left' = Tail(p_left)
               /\ p_pc' = IF Len(p_left) = 1 THEN "stream_top" ELSE "sub_acquire"
        /\ (p_pc' \in PStreamingPcs /\ p_pc \notin PStreamingPcs)
            => p_pc = "sub_send" /\ p_left' = <<>>
        /\ p_pc \in {"sub_acquire", "sub_send"}
            => /\ p_pc' \in {"sub_acquire", "sub_send", "stream_top"}
               /\ UNCHANGED <<p_ws, p_msg, p_kind, orders>>
      ]_vars

\* the fourth subscribe of a connection has just been sent, six seconds or more after
\* the connection was opened, and no frame has been handled
C33_Witness ==
    /\ p_pc = "stream_top"
    /\ p_ws = "open"
    /\ p_left = <<>>
    /\ p_elapsed = 0
    /\ p_open >= 6
    /\ p_msg = NoMsg

\* C34: a private text frame that is JSON with an error key is dropped, whatever its
\* channel: the step that takes it leaves the Local Order Cache, the socket and the
\* token as they are, takes the loop back to the top of its message loop, and the
\* handler is never called for such a frame.
C34_PrivateErrorDropped ==
    [][ (p_txt' # NoMsg /\ p_txt = NoMsg /\ p_txt'.json /\ p_txt'.error)
            => /\ p_pc' = "stream_top"
               /\ UNCHANGED <<orders, p_msg, p_kind, p_latest, p_seen>>
               /\ UNCHANGED <<p_ws, p_token, p_backoff, p_shutdown, p_left, p_elapsed>>
      ]_vars

\* an error frame of the order channel that decodes as an Order for id 42 has just
\* been taken while a handler is registered: the cache is empty and the loop is back
\* at the top of its message loop
C34_Witness ==
    /\ p_txt # NoMsg
    /\ p_txt.json /\ p_txt.error
    /\ p_txt.channel = "orderEvents"
    /\ p_txt.order = OrderRec(42, "ORDERED")
    /\ order_callback
    /\ p_pc = "stream_top"
    /\ p_ws = "open"
    /\ orders = {}

\* the kind a frame of that channel is dispatched with
C39Kind(channel) ==
    IF channel = "executionEvents" THEN "ExecutionUpdate"
    ELSE IF channel = "orderEvents" THEN "OrderUpdate"
    ELSE IF channel = "positionEvents" THEN "PositionUpdate"
    ELSE IF channel = "positionSummaryEvents" THEN "PositionSummaryUpdate"
    ELSE "Unknown"

\* C39: the private loop takes a text frame only when the frame before it has been
\* dealt with; a frame that is JSON without an error key goes to the handler call,
\* with the kind of its channel (Unknown for any other or missing channel), and the
\* handler call is one step made for the frame just taken; a frame that is not JSON
\* goes to no handler call and leaves the socket open.
C39_PrivateDispatch ==
    [][ /\ (p_txt' # NoMsg /\ p_txt = NoMsg)
            => /\ p_pc = "recv"
               /\ p_msg = NoMsg
               /\ IF p_txt'.json /\ ~p_txt'.error
                  THEN /\ p_pc' = "callback"
                       /\ p_msg' = p_txt'
                       /\ p_kind' = C39Kind(p_txt'.channel)
                  ELSE /\ p_pc' = "stream_top"
                       /\ p_msg' = NoMsg
                       /\ p_ws' = "open"
        /\ (p_pc' = "callback" /\ p_pc # "callback")
            => p_txt' # NoMsg /\ p_txt = NoMsg
        /\ p_pc = "callback"
            => \/ UNCHANGED <<p_pc, p_msg, p_kind, p_txt>>
               \/ p_pc' = "stream_top" /\ p_msg' = NoMsg /\ p_ws' = "open"
      ]_vars

\* a frame with no channel is at the handler call, with kind Unknown, while a handler
\* is registered and the cache holds an order of an earlier frame
C39_Witness ==
    /\ p_pc = "callback"
    /\ order_callback
    /\ p_txt = p_msg
    /\ p_msg.channel = ""
    /\ p_kind = "Unknown"
    /\ orders # {}

\* C40: a primitive returns a success value only for a response text that is JSON,
\* whose status is the integer 0 and whose data decodes to the requested type; a
\* text whose status is missing or not an integer is returned as ExchangeError with
\* status -1, and a text that is not JSON as a parse error.
C40_SuccessOnlyForStatusZero ==
    RestReturned
        => /\ r_result.kind = "Ok"
                  => /\ r_body[1].json
                     /\ r_body[1].status = I64(0, 0)
                     /\ r_body[1].data # DataAbsent
                     /\ Decodes(r_call.T, r_body[1].data)
           /\ (r_body[1].json /\ r_body[1].status[1] # "int")
                  => r_result.kind = "ExchangeError" /\ r_result.status = -1
           /\ ~r_body[1].json => r_result.kind = "ParseError"

\* the threads of the client that are running ws_loop
RunningLoops == {i \in 1..Len(loops) : loops[i] # "terminated"}

\* C37: on one market-data client at most one ws_loop is running at any time,
\* whatever connect() and disconnect() calls are made.
C37_AtMostOneLoop == Cardinality(RunningLoops) <= 1

\* positions of the market-data loop at which it holds an open WebSocket:
\* Resubscribing and Streaming
OpenPcs ==
    {"collect_subs", "collect_queue", "resub_acquire", "resub_send", "stream_top", "recv",
     "drain"}

\* C36: the connected flag of a market-data client is true only while a loop of the
\* client holds an open WebSocket (Resubscribing or Streaming); it is false before
\* the first connection, while Connecting, during Backoff and after the loop has
\* returned; and a subscribe call that loads the flag while no connection is open
\* returns without placing a command in the queue.
C36_ConnectedOnlyWhileOpen ==
    [][ /\ (client = "data" /\ connected') => (pc' \in OpenPcs /\ ws' = "open")
        /\ (client = "data" /\ pc' \in {"none", "top", "connecting", "after", "sleep",
                                         "terminated"}) => ~connected'
        /\ (client = "loops" /\ connected')
               => \E i \in 1..Len(loops') : loops'[i] = "streaming"
        /\ (call.at = "check" /\ call' # call /\ pc \notin OpenPcs)
               => call' = NoCall /\ outgoing' = outgoing
      ]_vars

\* a connection has been lost after a subscribe call stored its tuple: the flag is
\* false again, the loop is in Backoff and the call is about to load the flag
C36_Witness ==
    /\ client = "data"
    /\ pc = "sleep"
    /\ ws = "dropped"
    /\ ~connected
    /\ call.at = "check"
    /\ fails = 0

\* C38: while a call of set_data_callback is in progress, the calling thread can
\* take the handler mutex and finish, or the loop thread can go on with its
\* dispatch: the two never wait for each other on the handler mutex and the
\* interpreter lock.
C38_RegistrationCompletes ==
    reg_pc = "lock"
        => ENABLED (SetDataCallback \/ Attach \/ LockHandler \/ HandlerSwitch \/ CallHandler)

\* the step is one of the loop at ws.next() in which no thread moves in
\* set_data_callback: the loop takes the text frame d_txt' or nothing happens
AtTextFrame == d_pc = "idle" /\ reg_pc' = reg_pc /\ d_txt' # <<>>

\* C31: a market-data text frame with an error key is dropped: the step that takes
\* it changes no order book, leads to no handler call and takes no lock, and the
\* loop is back at ws.next(); and a text frame, whatever it holds, leaves the loop
\* in Streaming with the socket, the connected flag and the backoff as they were.
C31_ErrorFrameDropped ==
    [][ /\ (AtTextFrame /\ d_txt'.json /\ d_txt'.error)
            => /\ d_pc' = "idle"
               /\ UNCHANGED <<books, delivered, book_clone, gil, cb_lock>>
        /\ (frame = "text" /\ frame' = "none")
            => /\ pc' = "stream_top"
               /\ UNCHANGED <<ws, connected, backoff_sec, fails>>
      ]_vars

\* an error frame of the orderbooks channel that decodes as a Depth has just been
\* taken while a handler is registered and the engine holds another book for its
\* symbol, which is still there
C31_Witness ==
    /\ d_pc = "idle"
    /\ d_txt # <<>>
    /\ d_txt.json /\ d_txt.error
    /\ d_txt.channel = "orderbooks" /\ d_txt.decodes
    /\ data_callback
    /\ \E e \in books :
         /\ e[1] = d_txt.depth.symbol
         /\ e[2].asks = << <<99, 2>>, <<100, 1>> >>
    /\ delivered.applied.asks = << <<99, 2>>, <<100, 1>> >>

\* C32: a market-data text frame that is not JSON, or whose channel is missing,
\* empty or none of ticker, orderbooks and trades, is dropped: the step that takes
\* it changes no order book and leads to no handler call; and a text frame,
\* whatever it holds, leaves the Subscription set, the connected flag, the socket
\* and the position of the loop in Streaming as they were.
C32_UnknownFrameDropped ==
    [][ /\ (/\ AtTextFrame
            /\ \/ ~d_txt'.json
               \/ ~d_txt'.error /\ d_txt'.channel \notin {"ticker", "orderbooks", "trades"})
            => /\ d_pc' = "idle"
               /\ UNCHANGED <<books, delivered, book_clone, data_callback, gil, cb_lock>>
        /\ (frame = "text" /\ frame' = "none")
            => /\ pc' = "stream_top"
               /\ UNCHANGED <<subscriptions, ws, connected, shutdown>>
      ]_vars

\* a frame of a channel the client does not know, which would decode as a Depth, has
\* just been taken while a handler is registered and the engine holds a book
C32_Witness ==
    /\ d_pc = "idle"
    /\ d_txt # <<>>
    /\ d_txt.json /\ ~d_txt.error
    /\ d_txt.channel = "orderbook" /\ d_txt.decodes
    /\ data_callback
    /\ books # {}
    /\ delivered.handle.kind = "copy"

\* C35: the engine holds at most one book per symbol; a step changes the books only
\* by applying the snapshot of an orderbooks frame that decodes, and then the book
\* of the frame's symbol exists and every book of another symbol is as it was; an
\* orderbooks frame that does not decode changes no book and leads to no handler
\* call; and no step removes a book.
C35_BooksPerSymbol ==
    [][ /\ \A e \in books' : \A f \in books' : e[1] = f[1] => e = f
        /\ \A e \in books : \E f \in books' : f[1] = e[1]
        /\ books' # books
            => /\ d_pc = "idle" /\ d_txt' # <<>>
               /\ d_txt'.json /\ ~d_txt'.error
               /\ d_txt'.channel = "orderbooks" /\ d_txt'.decodes
               /\ \E f \in books' : f[1] = d_txt'.depth.symbol
               /\ \A e \in books : e[1] # d_txt'.depth.symbol => e \in books'
        /\ (AtTextFrame /\ d_txt'.channel = "orderbooks" /\ ~d_txt'.decodes)
            => d_pc' = "idle" /\ UNCHANGED <<books, delivered, book_clone>>
      ]_vars

\* the first snapshot for ETH_JPY has just been applied: its book has been created
\* and the book of BTC_JPY, which the handler was given, is as it was
C35_Witness ==
    /\ d_pc = "attach"
    /\ d_txt.channel = "orderbooks"
    /\ d_depth.symbol = "ETH_JPY"
    /\ delivered.handle.symbol = "BTC_JPY"
    /\ delivered.applied.asks # <<>>
    /\ <<"BTC_JPY", delivered.applied>> \in books
    /\ <<"ETH_JPY", d_applied>> \in books
    /\ d_applied.asks # <<>>

====
